---- MODULE Spec2Model ----
(***************************************************************************)
(* OAuth 2.0 authorization server of sso-nestjs: OAuthController and       *)
(* OAuthService over the Prisma store (authorization_codes,                *)
(* refresh_tokens, sso_applications, webhook_logs, last_logins).           *)
(*                                                                         *)
(* Every HTTP request is a slot of `req`.  A handler is cut at its store   *)
(* operations (each `await this.prisma...` is one action); the synchronous *)
(* code between two store operations belongs to the action of the store    *)
(* operation that precedes it.  Prisma's contract is modelled as           *)
(* documented: findUnique returns the row or null, create inserts, delete  *)
(* and update throw P2025 when no row matches, and each call is atomic.    *)
(* An exception nobody catches is answered by Nest with status 500.        *)
(*                                                                         *)
(* A request's body is fixed when the request is sent.  The model draws a  *)
(* body field at the step that first reads it; no step is enabled or       *)
(* disabled by a field it has not read, so the behaviours are those of     *)
(* drawing the whole body at the start.  Random values                     *)
(* (CryptoService.generateSecureToken) are fresh: a client presents a      *)
(* value that has been generated, or 0, a value that never existed.        *)
(***************************************************************************)
EXTENDS Integers, Sequences, FiniteSets, TLC

\* ---------------------------------------------------------------- bounds
MaxReq == 2      \* request slots: requests in flight at the same time
MaxOps == 3      \* /token, /token/refresh and /revoke requests sent in a run
MaxCodes == 1    \* authorization codes generated in a run
MaxEvents == 2   \* user events sent to a webhook in a run
MaxResets == 1   \* manual retries of one delivery record
MaxTransactions == 2  \* eID transactions initiated in a run
MaxLogins == 2   \* logins and failed logins recorded in a run
RandomLen == 1   \* hex digits of the random part of a transaction id
MaxPosts == 3    \* posts to the SAML assertion consumer service in a run
MaxAttempts == 6 \* password logins recorded in a run of the lockout
MaxResetTokens == 1  \* one-time tokens generated in a run

\* ------------------------------------------------------------- constants
CodeTTL == 10 * 60                  \* seconds, authorization code lifetime
RefreshTTL == 30 * 24 * 60 * 60     \* seconds, refresh token lifetime

Slots == 1..MaxReq
Users == {1, 2}

\* ---------------------------------------------------------------- strings
\* A scope string is a sequence of characters, so that split and join are
\* computed and not assumed.
SP == <<" ">>
ScopeRead == <<"r", "e", "a", "d">>
ScopeWrite == <<"w", "r", "i", "t", "e">>
ScopeAdmin == <<"a", "d", "m", "i", "n">>
NoScope == <<>>        \* scope absent or "": both are falsy in `request.scope ?`

\* String.prototype.split(" ")
RECURSIVE Split(_)
Split(s) ==
  IF s = <<>> THEN << <<>> >>
  ELSE LET rest == Split(Tail(s)) IN
       IF Head(s) = " " THEN << <<>> >> \o rest
       ELSE << <<Head(s)>> \o Head(rest) >> \o Tail(rest)

\* Array.prototype.join(" ")
RECURSIVE Join(_)
Join(toks) ==
  IF toks = <<>> THEN <<>>
  ELSE IF Len(toks) = 1 THEN toks[1]
  ELSE toks[1] \o SP \o Join(Tail(toks))

Range(f) == {f[i] : i \in DOMAIN f}

\* -------------------------------------------------------- client registry
\* sso_applications rows.  A and B are active with refresh tokens enabled, C
\* is active with refresh tokens disabled, D is disabled.  Only B has a
\* webhook URL.
AppIds == {1, 2, 3, 4}
UriA == "https://app.test/cb"
UriB == "https://b.test/cb"
UriC == "https://c.test/cb"
UriD == "https://d.test/cb"
UriEvil == "https://evil.test/cb"
UriGarbage == "not a url"

InitialApplications ==
  [a \in AppIds |->
     CASE a = 1 -> [id |-> 1, organizationId |-> 1, clientId |-> "client_A",
                    clientSecret |-> "secret_A",
                    redirectUri |-> UriA, scope |-> ScopeRead \o SP \o ScopeWrite,
                    status |-> "active", tokenExpirationTime |-> 3600,
                    refreshTokenEnabled |-> TRUE, webhookUrl |-> FALSE]
       [] a = 2 -> [id |-> 2, organizationId |-> 1, clientId |-> "client_B",
                    clientSecret |-> "secret_B",
                    redirectUri |-> UriB, scope |-> ScopeWrite,
                    status |-> "active", tokenExpirationTime |-> 3600,
                    refreshTokenEnabled |-> TRUE, webhookUrl |-> TRUE]
       [] a = 3 -> [id |-> 3, organizationId |-> 2, clientId |-> "client_C",
                    clientSecret |-> "secret_C",
                    redirectUri |-> UriC, scope |-> ScopeRead,
                    status |-> "active", tokenExpirationTime |-> 3600,
                    refreshTokenEnabled |-> FALSE, webhookUrl |-> FALSE]
       [] OTHER -> [id |-> 4, organizationId |-> 2, clientId |-> "client_D",
                    clientSecret |-> "secret_D",
                    redirectUri |-> UriD, scope |-> ScopeRead,
                    status |-> "disabled", tokenExpirationTime |-> 3600,
                    refreshTokenEnabled |-> TRUE, webhookUrl |-> FALSE]]

ClientIds == {"client_A", "client_B", "client_C", "client_D", "client_X"}
Secrets == {"secret_A", "secret_B", "secret_C", "secret_D"}
RedirectUris == {UriA, UriB, UriC, UriD, UriEvil}

\* `new URL(s)` succeeds
IsParseableUrl(s) == s \in RedirectUris

VARIABLES
  applications,        \* sso_applications: id -> row
  authorizationCodes,  \* authorization_codes: set of rows, unique on code
  refreshTokens,       \* refresh_tokens: set of rows, unique on token
  lastLogins,          \* number of last_logins rows
  webhookLogs,         \* webhook_logs: sequence of rows
  now,                 \* server clock, seconds
  nextCode,            \* next fresh authorization code value
  nextToken,           \* next fresh refresh token value
  sent,                \* requests sent so far to /token, /token/refresh, /revoke
  authz,               \* response of the latest /authorize request
  req,                 \* slot -> request in flight or answered
  issued,              \* history: code -> row stored at /authorize
  exchangeOk,          \* history: code -> token responses returned for it
  refreshOk,           \* history: refresh value -> token responses returned for it
  revoked,             \* history: refresh values deleted by /revoke
  response,            \* response of the latest request to /sso/applications or /oauth/consent
  sweep,               \* instance -> its run of WebhookService.retryFailedWebhooks
  users,               \* users: set of rows, unique on email
  oauthConnections,    \* oauth_connections: set of rows
  transactions,        \* history: transaction ids returned by initiateAuth
  nafath,              \* response of the latest request to /auth/nafath/...
  samlUsers,           \* the User rows of UserService: unique on email and samlUserId
  acs,                 \* response of the latest post to /saml/:uuid/acs
  posted,              \* history: the assertions posted for a known tenant, in order
  session,             \* response of the latest request to /auth/login
  posting,             \* the webhook POSTs that have been sent and have not returned
  logins,              \* slot -> call of AuthService.login in flight or answered
  passwordResetTokens, \* password_reset_tokens: set of rows, unique on token
  tokenCalls,          \* slot -> call of activateAccount or resetPassword
  refreshed            \* response of the latest request to /auth/refresh

vars == <<applications, authorizationCodes, refreshTokens, lastLogins,
          webhookLogs, now, nextCode, nextToken, sent, authz, req,
          issued, exchangeOk, refreshOk, revoked, response, sweep,
          users, oauthConnections, transactions, nafath,
          samlUsers, acs, posted, session, posting, logins,
          passwordResetTokens, tokenCalls, refreshed>>

\* the state of the handlers that await a webhook
\* the state of the account endpoints cut at their store operations
oneTime == <<passwordResetTokens, tokenCalls>>
account == <<logins, oneTime, refreshed>>
extra == <<posting, account>>
\* the state of the SAML endpoints
saml == <<samlUsers, acs, posted>>
store == <<applications, authorizationCodes, refreshTokens, lastLogins,
           webhookLogs>>
history == <<issued, exchangeOk, refreshOk, revoked>>
\* what the OAuth endpoints leave alone
aside == <<response, sweep, users, oauthConnections, transactions, nafath,
           saml, session, extra>>
\* what the application endpoints leave alone
oauth == <<authorizationCodes, refreshTokens, lastLogins, webhookLogs, now,
           nextCode, nextToken, sent, authz, req, history, sweep,
           users, oauthConnections, transactions, nafath, saml, session, extra>>
\* what the retry task leaves alone
untouched == <<applications, authorizationCodes, refreshTokens, lastLogins,
               nextCode, nextToken, sent, authz, req, history, response,
               users, oauthConnections, transactions, nafath, saml, session, extra>>
\* what the eID endpoints leave alone
provider == <<applications, authorizationCodes, refreshTokens, webhookLogs,
              now, nextCode, nextToken, sent, authz, req, history, response,
              sweep, saml, session, extra>>

\* ---------------------------------------------------------------- lookups
\* ssoService.findByClientId: the row, or {} when NotFoundException is thrown
findByClientId(clientId) ==
  {applications[a] : a \in {x \in AppIds : applications[x].clientId = clientId}}

\* prisma.authorizationCode.findUnique({ where: { code } })
findCode(code) == {c \in authorizationCodes : c.code = code}

findRefreshToken_all(value) == refreshTokens
\* prisma.refreshToken.findUnique({ where: { token } })
findRefreshToken(value) == {t \in refreshTokens : t.token = value}

\* jwtService.sign(payload): the token is its payload
sign(userId, clientId, scope) ==
  [sub |-> userId, client_id |-> clientId, scope |-> scope, iat |-> now]

Resp(status, message) == [status |-> status, message |-> message]
NoResp == Resp(0, "")

\* ------------------------------------------------------------ requests
\* A slot of `req`.  kind: the endpoint; pc: the store operation the handler
\* is about to issue; "-" marks a body field the handler has not read yet.
Idle ==
  [kind |-> "idle", pc |-> "idle", missing |-> FALSE, grant_type |-> "-",
   client_id |-> "-", client_secret |-> "-", redirect_uri |-> "-",
   cred |-> 0, refresh_token |-> 0, jwt |-> FALSE, stale |-> FALSE,
   afterRevoke |-> FALSE,
   app |-> {}, found |-> {}, access_token |-> {}, new_token |-> 0,
   result |-> NoResp]

NoAuthz ==
  [kind |-> "none", query |-> [response_type |-> "", client_id |-> "",
                               redirect_uri |-> "", scope |-> NoScope,
                               state |-> ""],
   userId |-> 0, location |-> "", code |-> 0, error |-> "", state |-> ""]

\* the application instances, each with its own cron task
Instances == {1, 2}
\* retryFailedWebhooks is not running
NoSweep == [pc |-> "idle", failedWebhooks |-> <<>>]

\* a NULL date column (next_retry_at, last_login_at)
NoDate == -1

\* bcrypt.hash(password, saltRounds): the hash is the password under bcrypt
hashPassword(password) == <<"$2b$", password>>

\* The registered users: two organizations each hold a user with the email
\* a@x.test (users_org_email_unique is on organization_id, email), and the
\* first organization holds a user who is not active.  Strings the code
\* takes apart or puts together are sequences of their pieces.
InitialUsers ==
  {[id |-> 1, organizationId |-> 1, email |-> <<"a@x.test">>,
    password |-> hashPassword("pw-1"), status |-> 1, fullName |-> "A",
    emailVerified |-> FALSE, lastLoginAt |-> NoDate, loginAttempts |-> 0,
    lockedUntil |-> NoDate],
   [id |-> 2, organizationId |-> 2, email |-> <<"a@x.test">>,
    password |-> hashPassword("pw-2"), status |-> 1, fullName |-> "B",
    emailVerified |-> FALSE, lastLoginAt |-> NoDate, loginAttempts |-> 0,
    lockedUntil |-> NoDate],
   [id |-> 3, organizationId |-> 1, email |-> <<"c@x.test">>,
    password |-> hashPassword("pw-3"), status |-> 0, fullName |-> "C",
    emailVerified |-> FALSE, lastLoginAt |-> NoDate, loginAttempts |-> 0,
    lockedUntil |-> NoDate]}

\* no request to /auth/login has been answered
NoSession ==
  [status |-> 0, message |-> "", loginDto |-> {}, organizationId |-> 0,
   user |-> {}, accessToken |-> {}]

\* no post to /saml/:uuid/acs has been answered
NoAcs == [status |-> 0, uuid |-> "", body |-> {}, user |-> {}, token |-> {}]

\* no call of AuthService.login holds the slot
NoLogin ==
  [pc |-> "idle", loginDto |-> {}, user |-> {}, loginAttempts |-> 0,
   at |-> 0, status |-> 0, message |-> "", accessToken |-> {},
   refreshToken |-> {}]

\* no call of activateAccount or resetPassword holds the slot
NoTokenCall ==
  [pc |-> "idle", op |-> "", token |-> 0, newPassword |-> "", found |-> {},
   status |-> 0, message |-> ""]

\* no request to /auth/refresh has been answered
NoRefreshed == [status |-> 0, presented |-> {}, accessToken |-> {}]

\* no request to /auth/nafath/... has been answered
NoNafath == [op |-> "none", request |-> {}, error |-> "", body |-> {}]

\* no request to /sso/applications or /oauth/consent has been answered
NoResponse == [op |-> "none", status |-> 0, data |-> {}]

Init ==
  /\ applications = InitialApplications
  /\ authorizationCodes = {}
  /\ refreshTokens = {}
  /\ lastLogins = 0
  /\ webhookLogs = <<>>
  /\ now = 0
  /\ nextCode = 1
  /\ nextToken = 1
  /\ sent = 0
  /\ authz = NoAuthz
  /\ req = [s \in Slots |-> Idle]
  /\ issued = <<>>
  /\ exchangeOk = <<>>
  /\ refreshOk = <<>>
  /\ revoked = {}
  /\ response = NoResponse
  /\ sweep = [i \in Instances |-> NoSweep]
  /\ users = InitialUsers
  /\ oauthConnections = {}
  /\ transactions = {}
  /\ nafath = NoNafath
  /\ samlUsers = {}
  /\ acs = NoAcs
  /\ posted = <<>>
  /\ session = NoSession
  /\ posting = {}
  /\ logins = [s \in Slots |-> NoLogin]
  /\ passwordResetTokens = {}
  /\ tokenCalls = [s \in Slots |-> NoTokenCall]
  /\ refreshed = NoRefreshed

\* ------------------------------------------------------------ webhooks
\* What a call of WebhookService.sendWebhook can come to:
\*   "delivered"  the POST returned 2xx and logWebhook stored a delivered row
\*   "failed"     the POST threw (non-2xx, timeout, no connection) and
\*                logWebhook stored a failed row
\*   "mislogged"  the POST returned 2xx, webhookLog.create of the delivered
\*                row threw inside the try block, and the catch block stored
\*                a failed row
\*   "unlogged"   webhookLog.create threw in the catch block: sendWebhook
\*                rejects
WebhookOutcomes == {"delivered", "failed", "mislogged", "unlogged"}
\* the outcomes when the writes to webhook_logs succeed
Logged == {"delivered", "failed"}

\* sendWebhook: `5 * 60 * 1000` ms, in seconds
RetryDelay == 5 * 60
\* retryFailedWebhooks: `attempt: { lt: 3 }`
MaxAttempt == 3

\* The webhook_logs row logWebhook creates; attempt is the column default.
\* posts, resets and ok are history: the HTTP POSTs made for the row, the
\* manual retries of it, and whether the POST of sendWebhook returned 2xx.
WebhookLog(application, event, delivered) ==
  [ssoApplicationId |-> application.id, event |-> event,
   status |-> IF delivered THEN "delivered" ELSE "failed",
   attempt |-> 1,
   nextRetryAt |-> IF delivered THEN NoDate ELSE now + RetryDelay,
   posts |-> 1, resets |-> 0, ok |-> delivered]

\* sendAuthorizationEvent / sendTokenEvent: nothing without a webhook URL
sendEvent(application, event, outcome) ==
  IF application.webhookUrl
  THEN IF outcome = "unlogged"
       THEN UNCHANGED webhookLogs
       ELSE webhookLogs' =
              Append(webhookLogs,
                     [WebhookLog(application, event, outcome = "delivered")
                        EXCEPT !.ok = (outcome \in {"delivered", "mislogged"})])
  ELSE /\ outcome = "delivered"
       /\ UNCHANGED webhookLogs

\* sendWebhook rejects, and so does the handler that awaits it
sendThrows(application, outcome) ==
  application.webhookUrl /\ outcome = "unlogged"

\* WebhookService.sendUserEvent for application a; a rejected call leaves
\* nothing behind
sendUserEvent(a, outcome) ==
  /\ Len(webhookLogs) < MaxEvents
  /\ ~sendThrows(applications[a], outcome)
  /\ sendEvent(applications[a], "user_event", outcome)
  /\ UNCHANGED <<untouched, now, sweep>>

\* ----------------------------------------------------------- /authorize
requestedScopesOf(q) == IF q.scope # NoScope THEN Split(q.scope) ELSE <<ScopeRead>>
allowedScopesOf(application) == Split(application.scope)

\* OAuthService.authorize: the loop over requestedScopes
scopesAllowed_any(q, application) == TRUE
scopesAllowed(q, application) ==
  \A i \in DOMAIN requestedScopesOf(q) :
    requestedScopesOf(q)[i] \in Range(allowedScopesOf(application))

authorizeError_skipActive(q) ==
  IF q.response_type = "" \/ q.client_id = "" \/ q.redirect_uri = ""
  THEN "Missing required parameters"
  ELSE IF q.response_type # "code"
  THEN "Only code response type is supported"
  ELSE IF findByClientId(q.client_id) = {}
  THEN "SSO application not found"
  ELSE LET application == CHOOSE a \in findByClientId(q.client_id) : TRUE IN
       IF q.redirect_uri # application.redirectUri
       THEN "Invalid redirect URI"
       ELSE IF ~scopesAllowed(q, application)
       THEN "Scope is not allowed"
       ELSE ""

\* OAuthController.authorize's parameter check followed by
\* OAuthService.authorize's checks: the message of the exception thrown, or
\* "" when none is thrown.
authorizeError(q) ==
  IF q.response_type = "" \/ q.client_id = "" \/ q.redirect_uri = ""
  THEN "Missing required parameters"
  ELSE IF q.response_type # "code"
  THEN "Only code response type is supported"
  ELSE IF findByClientId(q.client_id) = {}
  THEN "SSO application not found"
  ELSE LET application == CHOOSE a \in findByClientId(q.client_id) : TRUE IN
       IF application.status # "active"
       THEN "Application is not active"
       ELSE IF q.redirect_uri # application.redirectUri
       THEN "Invalid redirect URI"
       ELSE IF ~scopesAllowed(q, application)
       THEN "Scope is not allowed"
       ELSE ""

\* The response OAuthController.authorize sends when the service threw: the
\* catch block redirects to the redirect_uri of the query, and `new URL`
\* throws out of the catch block when that is not a URL.
authorizeFailure(q, userId, error) ==
  IF IsParseableUrl(q.redirect_uri)
  THEN [kind |-> "redirect", query |-> q, userId |-> userId,
        location |-> q.redirect_uri, code |-> 0, error |-> error,
        state |-> q.state]
  ELSE [kind |-> "http_error", query |-> q, userId |-> userId,
        location |-> "", code |-> 0, error |-> "Internal server error",
        state |-> ""]

\* GET /oauth/authorize by the authenticated user userId
authorize(q, userId, outcome) ==
  LET error == authorizeError(q) IN
  IF error # ""
  THEN /\ outcome = "delivered"
       /\ authz' = authorizeFailure(q, userId, error)
       /\ UNCHANGED <<aside, store, now, nextCode, nextToken, sent, req, history>>
  ELSE LET application == CHOOSE a \in findByClientId(q.client_id) : TRUE
           row == [code |-> nextCode, userId |-> userId,
                   applicationId |-> application.id,
                   redirectUri |-> q.redirect_uri,
                   scope |-> Join(requestedScopesOf(q)),
                   expiresAt |-> now + CodeTTL]
       IN /\ nextCode <= MaxCodes
          /\ authorizationCodes' = authorizationCodes \cup {row}
          /\ nextCode' = nextCode + 1
          /\ issued' = Append(issued, row)
          /\ exchangeOk' = Append(exchangeOk, 0)
          /\ sendEvent(application, "authorization_granted", outcome)
          /\ authz' = IF sendThrows(application, outcome)
                      THEN authorizeFailure(q, userId, "webhookLog.create failed")
                      ELSE [kind |-> "redirect", query |-> q, userId |-> userId,
                            location |-> q.redirect_uri, code |-> row.code,
                            error |-> "", state |-> q.state]
          /\ UNCHANGED <<aside, applications, refreshTokens, lastLogins, now,
                         nextToken, sent, req, refreshOk, revoked>>

ScopeInputs ==
  {NoScope, ScopeRead, ScopeWrite, ScopeAdmin,
   ScopeRead \o SP \o ScopeWrite, ScopeWrite \o SP \o ScopeRead,
   ScopeRead \o SP \o ScopeAdmin, ScopeRead \o SP \o SP \o ScopeWrite,
   SP \o ScopeRead}

\* every query string a caller can send
Queries ==
  [response_type : {"code", "token", ""},
   client_id : ClientIds \cup {""},
   redirect_uri : RedirectUris \cup {UriGarbage, ""},
   scope : ScopeInputs,
   state : {"", "abc"}]

GrantQueryA ==
  [response_type |-> "code", client_id |-> "client_A", redirect_uri |-> UriA,
   scope |-> ScopeRead, state |-> "abc"]

\* the queries of well-behaved callers of the three active clients
GrantQueries ==
  {GrantQueryA,
   [response_type |-> "code", client_id |-> "client_B", redirect_uri |-> UriB,
    scope |-> ScopeWrite, state |-> "abc"],
   [response_type |-> "code", client_id |-> "client_C", redirect_uri |-> UriC,
    scope |-> NoScope, state |-> "abc"]}

\* -------------------------------------------------------------- clock
\* Time passes.  Only the order of the clock and the expiry instants is
\* observable: the clock moves to the first instant at which a stored code
\* or refresh token is expired (expiresAt < now).
Instants ==
  {c.expiresAt + 1 : c \in authorizationCodes} \cup
  {t.expiresAt + 1 : t \in refreshTokens}

Tick(t) ==
  /\ t > now
  /\ now' = t
  /\ UNCHANGED <<aside, store, nextCode, nextToken, sent, authz, req, history>>

\* ------------------------------------------------------- request helpers
GrantTypes == {"authorization_code", "refresh_token", "client_credentials"}

\* the values a caller can present: those generated so far, and 0, a value
\* that was never generated
Codes == 0..(nextCode - 1)
Tokens == 0..(nextToken - 1)

\* codes for which an exchange has returned a token response
consumed == {c \in DOMAIN exchangeOk : exchangeOk[c] > 0}
\* refresh values for which a refresh has returned a token response
rotated == {v \in DOMAIN refreshOk : refreshOk[v] > 0}

Answer(s, r, result) ==
  req' = [req EXCEPT ![s] = [r EXCEPT !.pc = "done", !.result = result]]

At(s, kind, pc) == req[s].kind = kind /\ req[s].pc = pc

P2025 == Resp(500, "Internal server error")

\* the exception thrown when findUnique returns null: `if (!authCode)` in
\* exchangeCodeForToken, `if (!refreshToken)` in refreshToken
unknownValue(kind) ==
  IF kind = "token" THEN Resp(401, "Invalid authorization code")
  ELSE Resp(401, "Invalid refresh token")

\* the request has been answered and its slot is free again
close(s) ==
  /\ req[s].pc = "done"
  /\ req' = [req EXCEPT ![s] = Idle]
  /\ UNCHANGED <<aside, store, now, nextCode, nextToken, sent, authz, history>>

\* ------------------------------------------------------ POST /oauth/token
\* exchangeCodeForToken: `request.grant_type !== "authorization_code"`
grantSupported_any(grant) == TRUE
grantSupported(grant) == grant = "authorization_code"

\* exchangeCodeForToken: `authCode.expiresAt < new Date()`
codeExpired(authCode) == authCode.expiresAt < now

\* exchangeCodeForToken: `authCode.applicationId !== application.id`
codeBelongs_any(authCode, application) == TRUE
codeBelongs(authCode, application) == authCode.applicationId = application.id

\* exchangeCodeForToken: `authCode.redirectUri !== request.redirect_uri`
redirectMatches_any(authCode, uri) == TRUE
redirectMatches(authCode, uri) == authCode.redirectUri = uri

\* OAuthController.token, then the grant_type check of exchangeCodeForToken.
\* missing: one of grant_type, code, client_id, client_secret, redirect_uri
\* is absent.  tok: the refresh_token field of the body, which the handler
\* never reads (0: the body has none).
token(s, missing, grant, code, tok) ==
  /\ req[s].kind = "idle"
  /\ sent < MaxOps
  /\ sent' = sent + 1
  /\ LET r == [Idle EXCEPT !.kind = "token", !.missing = missing,
                           !.grant_type = grant] IN
     IF missing
     THEN Answer(s, [r EXCEPT !.refresh_token = tok],
                 Resp(400, "Missing required parameters"))
     ELSE IF ~grantSupported(grant)
     THEN Answer(s, [r EXCEPT !.refresh_token = tok],
                 Resp(400, "Only authorization_code grant type is supported"))
     ELSE req' = [req EXCEPT ![s] =
                    [r EXCEPT !.pc = "findByClientId", !.cred = code,
                              !.stale = (code \in consumed)]]
  /\ UNCHANGED <<aside, store, now, nextCode, nextToken, authz, history>>

\* exchangeCodeForToken: ssoService.findByClientId, secret and status checks
exchange_findByClientId(s, cid, secret) ==
  /\ At(s, "token", "findByClientId")
  /\ LET r == [req[s] EXCEPT !.client_id = cid] IN
     IF findByClientId(cid) = {}
     THEN Answer(s, r, Resp(404, "SSO application not found"))
     ELSE LET application == CHOOSE a \in findByClientId(cid) : TRUE
              r2 == [r EXCEPT !.client_secret = secret]
          IN
          IF application.clientSecret # secret
          THEN Answer(s, r2, Resp(401, "Invalid client credentials"))
          ELSE IF application.status # "active"
          THEN Answer(s, r2, Resp(401, "Application is not active"))
          ELSE req' = [req EXCEPT ![s] =
                         [r2 EXCEPT !.pc = "findUnique", !.app = {application}]]
  /\ UNCHANGED <<aside, store, now, nextCode, nextToken, sent, authz, history>>

\* exchangeCodeForToken: authorizationCode.findUnique and the checks on the
\* row, up to the call of refreshToken.create or authorizationCode.delete
exchange_findUnique(s, uri) ==
  /\ At(s, "token", "findUnique")
  /\ LET r == req[s]
         application == CHOOSE a \in r.app : TRUE
         rows == findCode(r.cred)
     IN
     IF rows = {}
     THEN /\ Answer(s, r, unknownValue("token"))
          /\ UNCHANGED <<nextToken, refreshOk>>
     ELSE LET authCode == CHOOSE c \in rows : TRUE
              r1 == [r EXCEPT !.found = rows]
              r2 == [r1 EXCEPT !.redirect_uri = uri]
              r3 == [r2 EXCEPT !.access_token =
                       {sign(authCode.userId, application.clientId,
                             authCode.scope)}]
          IN
          IF codeExpired(authCode)
          THEN /\ req' = [req EXCEPT ![s] = [r1 EXCEPT !.pc = "deleteExpired"]]
               /\ UNCHANGED <<nextToken, refreshOk>>
          ELSE IF ~codeBelongs(authCode, application)
          THEN /\ Answer(s, r1, Resp(401,
                    "Authorization code does not belong to this application"))
               /\ UNCHANGED <<nextToken, refreshOk>>
          ELSE IF ~redirectMatches(authCode, uri)
          THEN /\ Answer(s, r2, Resp(400, "Redirect URI mismatch"))
               /\ UNCHANGED <<nextToken, refreshOk>>
          ELSE IF application.refreshTokenEnabled
          THEN /\ req' = [req EXCEPT ![s] =
                            [r3 EXCEPT !.pc = "createRefreshToken",
                                       !.new_token = nextToken]]
               /\ nextToken' = nextToken + 1
               /\ refreshOk' = Append(refreshOk, 0)
          ELSE /\ req' = [req EXCEPT ![s] = [r3 EXCEPT !.pc = "deleteCode"]]
               /\ UNCHANGED <<nextToken, refreshOk>>
  /\ UNCHANGED <<aside, store, now, nextCode, sent, authz, issued, exchangeOk, revoked>>

\* exchangeCodeForToken: authorizationCode.delete of an expired code
exchange_deleteExpired(s) ==
  /\ At(s, "token", "deleteExpired")
  /\ IF findCode(req[s].cred) # {}
     THEN /\ authorizationCodes' = authorizationCodes \ findCode(req[s].cred)
          /\ Answer(s, req[s], Resp(401, "Authorization code has expired"))
     ELSE /\ UNCHANGED authorizationCodes
          /\ Answer(s, req[s], P2025)
  /\ UNCHANGED <<aside, applications, refreshTokens, lastLogins, webhookLogs, now,
                 nextCode, nextToken, sent, authz, history>>

\* exchangeCodeForToken: refreshToken.create.  The field `code` of the row is
\* history: the authorization code the record was created for.
exchange_createRefreshToken(s) ==
  /\ At(s, "token", "createRefreshToken")
  /\ LET r == req[s]
         authCode == CHOOSE c \in r.found : TRUE
         application == CHOOSE a \in r.app : TRUE
     IN refreshTokens' = refreshTokens \cup
          {[id |-> r.new_token, token |-> r.new_token,
            userId |-> authCode.userId, applicationId |-> application.id,
            scope |-> authCode.scope, expiresAt |-> now + RefreshTTL,
            code |-> authCode.code]}
  /\ req' = [req EXCEPT ![s].pc = "deleteCode"]
  /\ UNCHANGED <<aside, applications, authorizationCodes, lastLogins, webhookLogs,
                 now, nextCode, nextToken, sent, authz, history>>

exchange_deleteCode_kept(s) ==
  /\ At(s, "token", "deleteCode")
  /\ req' = [req EXCEPT ![s].pc = "createLastLogin"]
  /\ UNCHANGED <<aside, store, now, nextCode, nextToken, sent, authz, history>>

\* exchangeCodeForToken: authorizationCode.delete of the used code
exchange_deleteCode(s) ==
  /\ At(s, "token", "deleteCode")
  /\ IF findCode(req[s].cred) # {}
     THEN /\ authorizationCodes' = authorizationCodes \ findCode(req[s].cred)
          /\ req' = [req EXCEPT ![s].pc = "createLastLogin"]
     ELSE /\ UNCHANGED authorizationCodes
          /\ Answer(s, req[s], P2025)
  /\ UNCHANGED <<aside, applications, refreshTokens, lastLogins, webhookLogs, now,
                 nextCode, nextToken, sent, authz, history>>

\* exchangeCodeForToken: lastLogin.create
exchange_createLastLogin(s) ==
  /\ At(s, "token", "createLastLogin")
  /\ lastLogins' = lastLogins + 1
  /\ req' = [req EXCEPT ![s].pc = "sendTokenEvent"]
  /\ UNCHANGED <<aside, applications, authorizationCodes, refreshTokens, webhookLogs,
                 now, nextCode, nextToken, sent, authz, history>>

\* `application` of the handler of slot s
TheApplication(s) == CHOOSE a \in req[s].app : TRUE

\* exchangeCodeForToken: webhookService.sendTokenEvent, then the response
exchange_sendTokenEvent(s, outcome) ==
  /\ At(s, "token", "sendTokenEvent")
  /\ sendEvent(TheApplication(s), "token_issued", outcome)
  /\ IF sendThrows(TheApplication(s), outcome)
     THEN /\ Answer(s, req[s], Resp(500, "Internal server error"))
          /\ UNCHANGED exchangeOk
     ELSE /\ Answer(s, req[s], Resp(200, "token response"))
          /\ exchangeOk' = [exchangeOk EXCEPT ![req[s].cred] = @ + 1]
  /\ UNCHANGED <<aside, applications, authorizationCodes, refreshTokens, lastLogins,
                 now, nextCode, nextToken, sent, authz, issued, refreshOk, revoked>>

\* ----------------------------------------------- POST /oauth/token/refresh
\* OAuthService.refreshToken: `refreshToken.expiresAt < new Date()`
tokenExpired(refreshToken) == refreshToken.expiresAt < now

\* OAuthService.refreshToken: `refreshToken.applicationId !== application.id`
tokenBelongs_any(refreshToken, application) == TRUE
tokenBelongs(refreshToken, application) ==
  refreshToken.applicationId = application.id

\* OAuthController.refreshToken
refresh(s, grant, missing, tok) ==
  /\ req[s].kind = "idle"
  /\ sent < MaxOps
  /\ sent' = sent + 1
  /\ LET r == [Idle EXCEPT !.kind = "refresh", !.grant_type = grant] IN
     IF grant # "refresh_token"
     THEN Answer(s, r, Resp(400, "Invalid grant type"))
     ELSE IF missing
     THEN Answer(s, [r EXCEPT !.missing = TRUE],
                 Resp(400, "Missing required parameters"))
     ELSE req' = [req EXCEPT ![s] =
                    [r EXCEPT !.pc = "findByClientId", !.cred = tok,
                              !.stale = (tok \in rotated),
                              !.afterRevoke = (tok \in revoked)]]
  /\ UNCHANGED <<aside, store, now, nextCode, nextToken, authz, history>>

\* OAuthService.refreshToken: ssoService.findByClientId, secret check,
\* refreshTokenEnabled check
refresh_findByClientId(s, cid, secret) ==
  /\ At(s, "refresh", "findByClientId")
  /\ LET r == [req[s] EXCEPT !.client_id = cid] IN
     IF findByClientId(cid) = {}
     THEN Answer(s, r, Resp(404, "SSO application not found"))
     ELSE LET application == CHOOSE a \in findByClientId(cid) : TRUE
              r2 == [r EXCEPT !.client_secret = secret]
          IN
          IF application.clientSecret # secret
          THEN Answer(s, r2, Resp(401, "Invalid client credentials"))
          ELSE IF ~application.refreshTokenEnabled
          THEN Answer(s, r2, Resp(400,
                    "Refresh tokens are not enabled for this application"))
          ELSE req' = [req EXCEPT ![s] =
                         [r2 EXCEPT !.pc = "findUnique", !.app = {application}]]
  /\ UNCHANGED <<aside, store, now, nextCode, nextToken, sent, authz, history>>

\* OAuthService.refreshToken: refreshToken.findUnique and the checks on the
\* row, up to the call of refreshToken.update
refresh_findUnique(s) ==
  /\ At(s, "refresh", "findUnique")
  /\ LET r == req[s]
         application == CHOOSE a \in r.app : TRUE
         rows == findRefreshToken(r.cred)
     IN
     IF rows = {}
     THEN /\ Answer(s, r, unknownValue("refresh"))
          /\ UNCHANGED <<nextToken, refreshOk>>
     ELSE LET refreshToken == CHOOSE t \in rows : TRUE
              r1 == [r EXCEPT !.found = rows]
          IN
          IF tokenExpired(refreshToken)
          THEN /\ req' = [req EXCEPT ![s] = [r1 EXCEPT !.pc = "deleteExpired"]]
               /\ UNCHANGED <<nextToken, refreshOk>>
          ELSE IF ~tokenBelongs(refreshToken, application)
          THEN /\ Answer(s, r1, Resp(401,
                    "Refresh token does not belong to this application"))
               /\ UNCHANGED <<nextToken, refreshOk>>
          ELSE /\ req' = [req EXCEPT ![s] =
                            [r1 EXCEPT !.pc = "update",
                                       !.access_token =
                                          {sign(refreshToken.userId,
                                                application.clientId,
                                                refreshToken.scope)},
                                       !.new_token = nextToken]]
               /\ nextToken' = nextToken + 1
               /\ refreshOk' = Append(refreshOk, 0)
  /\ UNCHANGED <<aside, store, now, nextCode, sent, authz, issued, exchangeOk, revoked>>

refresh_deleteExpired_kept(s) ==
  /\ At(s, "refresh", "deleteExpired")
  /\ Answer(s, req[s], Resp(401, "Refresh token has expired"))
  /\ UNCHANGED <<aside, store, now, nextCode, nextToken, sent, authz, history>>

\* OAuthService.refreshToken: refreshToken.delete of an expired token
refresh_deleteExpired(s) ==
  /\ At(s, "refresh", "deleteExpired")
  /\ IF findRefreshToken(req[s].cred) # {}
     THEN /\ refreshTokens' = refreshTokens \ findRefreshToken(req[s].cred)
          /\ Answer(s, req[s], Resp(401, "Refresh token has expired"))
     ELSE /\ UNCHANGED refreshTokens
          /\ Answer(s, req[s], P2025)
  /\ UNCHANGED <<aside, applications, authorizationCodes, lastLogins, webhookLogs,
                 now, nextCode, nextToken, sent, authz, history>>

rotate_kept(row, newToken) == [row EXCEPT !.expiresAt = now + RefreshTTL]

\* the row after refreshToken.update({ where: { token }, data: { token, expiresAt } })
rotate(row, newToken) ==
  [row EXCEPT !.token = newToken, !.expiresAt = now + RefreshTTL]

refresh_update_many(s) ==
  /\ At(s, "refresh", "update")
  /\ LET rows == findRefreshToken(req[s].cred) IN
     /\ refreshTokens' = (refreshTokens \ rows) \cup
                         {[t EXCEPT !.token = req[s].new_token,
                                    !.expiresAt = now + RefreshTTL] : t \in rows}
     /\ Answer(s, req[s], Resp(200, "token response"))
     /\ refreshOk' = [refreshOk EXCEPT ![req[s].cred] = @ + 1]
  /\ UNCHANGED <<aside, applications, authorizationCodes, lastLogins, webhookLogs,
                 now, nextCode, nextToken, sent, authz, issued, exchangeOk, revoked>>

\* OAuthService.refreshToken: refreshToken.update, then the response
refresh_update(s) ==
  /\ At(s, "refresh", "update")
  /\ LET rows == findRefreshToken(req[s].cred) IN
     IF rows # {}
     THEN /\ refreshTokens' = (refreshTokens \ rows) \cup
                              {rotate(t, req[s].new_token) : t \in rows}
          /\ Answer(s, req[s], Resp(200, "token response"))
          /\ refreshOk' = [refreshOk EXCEPT ![req[s].cred] = @ + 1]
     ELSE /\ UNCHANGED <<refreshTokens, refreshOk>>
          /\ Answer(s, req[s], P2025)
  /\ UNCHANGED <<aside, applications, authorizationCodes, lastLogins, webhookLogs,
                 now, nextCode, nextToken, sent, authz, issued, exchangeOk, revoked>>

\* ----------------------------------------------------- POST /oauth/revoke
\* OAuthController.revokeToken: the parameter check
revoke(s, missing) ==
  /\ req[s].kind = "idle"
  /\ sent < MaxOps
  /\ sent' = sent + 1
  /\ LET r == [Idle EXCEPT !.kind = "revoke", !.missing = missing] IN
     IF missing
     THEN Answer(s, r, Resp(400, "Missing required parameters"))
     ELSE req' = [req EXCEPT ![s] = [r EXCEPT !.pc = "findByClientId"]]
  /\ UNCHANGED <<aside, store, now, nextCode, nextToken, authz, history>>

\* OAuthController.revokeToken: ssoService.findByClientId (client_secret is
\* never read), then OAuthService.revokeToken's jwtService.verify: the token
\* is a signed access token (jwt), or the string tok
revoke_findByClientId(s, cid, jwt, tok) ==
  /\ At(s, "revoke", "findByClientId")
  /\ LET r == [req[s] EXCEPT !.client_id = cid] IN
     IF findByClientId(cid) = {}
     THEN Answer(s, r, Resp(401, "Invalid client credentials"))
     ELSE IF jwt
     THEN Answer(s, [r EXCEPT !.jwt = TRUE],
                 Resp(200, "Token revoked successfully"))
     ELSE req' = [req EXCEPT ![s] = [r EXCEPT !.pc = "findUnique", !.cred = tok,
                                              !.afterRevoke = (tok \in revoked)]]
  /\ UNCHANGED <<aside, store, now, nextCode, nextToken, sent, authz, history>>

revoke_findUnique_strict(s) ==
  /\ At(s, "revoke", "findUnique")
  /\ LET rows == findRefreshToken(req[s].cred) IN
     IF rows = {}
     THEN Answer(s, req[s], Resp(400, "Invalid token"))
     ELSE req' = [req EXCEPT ![s] = [req[s] EXCEPT !.pc = "delete",
                                                   !.found = rows]]
  /\ UNCHANGED <<aside, store, now, nextCode, nextToken, sent, authz, history>>

\* OAuthService.revokeToken: refreshToken.findUnique
revoke_findUnique(s) ==
  /\ At(s, "revoke", "findUnique")
  /\ LET rows == findRefreshToken(req[s].cred) IN
     IF rows = {}
     THEN Answer(s, req[s], Resp(200, "Token revoked successfully"))
     ELSE req' = [req EXCEPT ![s] = [req[s] EXCEPT !.pc = "delete",
                                                   !.found = rows]]
  /\ UNCHANGED <<aside, store, now, nextCode, nextToken, sent, authz, history>>

revoke_delete_kept(s) ==
  /\ At(s, "revoke", "delete")
  /\ revoked' = revoked \cup {req[s].cred}
  /\ Answer(s, req[s], Resp(200, "Token revoked successfully"))
  /\ UNCHANGED <<aside, store, now, nextCode, nextToken, sent, authz,
                 issued, exchangeOk, refreshOk>>

\* OAuthService.revokeToken: refreshToken.delete, then the response
revoke_delete(s) ==
  /\ At(s, "revoke", "delete")
  /\ IF findRefreshToken(req[s].cred) # {}
     THEN /\ refreshTokens' = refreshTokens \ findRefreshToken(req[s].cred)
          /\ revoked' = revoked \cup {req[s].cred}
          /\ Answer(s, req[s], Resp(200, "Token revoked successfully"))
     ELSE /\ UNCHANGED <<refreshTokens, revoked>>
          /\ Answer(s, req[s], P2025)
  /\ UNCHANGED <<aside, applications, authorizationCodes, lastLogins, webhookLogs,
                 now, nextCode, nextToken, sent, authz,
                 issued, exchangeOk, refreshOk>>

\* ------------------------------------------------------- retry task
\* TaskService.handleWebhookRetries runs WebhookService.retryFailedWebhooks
\* on every instance.

due_early(webhookLog) ==
  /\ webhookLog.status = "failed"
  /\ webhookLog.nextRetryAt # NoDate
  /\ webhookLog.nextRetryAt <= now
  /\ webhookLog.attempt < MaxAttempt - 1
\* the where clause of retryFailedWebhooks' findMany
due(webhookLog) ==
  /\ webhookLog.status = "failed"
  /\ webhookLog.nextRetryAt # NoDate
  /\ webhookLog.nextRetryAt <= now
  /\ webhookLog.attempt < MaxAttempt

\* the rows of webhook_logs from index k on that are due, as findMany
\* returns them: copies, with the row id
RECURSIVE dueFrom(_)
dueFrom(k) ==
  IF k > Len(webhookLogs) THEN <<>>
  ELSE (IF due(webhookLogs[k])
        THEN <<[id |-> k, attempt |-> webhookLogs[k].attempt]>>
        ELSE <<>>) \o dueFrom(k + 1)

\* retryFailedWebhooks: findMany, called by the cron task (pc "idle") or by
\* retryWebhook (pc "called").  A run that finds nothing returns at once.
retryFailedWebhooks(i) ==
  /\ \/ sweep[i].pc = "idle" /\ dueFrom(1) # <<>>
     \/ sweep[i].pc = "called"
  /\ sweep' = [sweep EXCEPT ![i] =
                 IF dueFrom(1) = <<>> THEN NoSweep
                 ELSE [pc |-> "loop", failedWebhooks |-> dueFrom(1)]]
  /\ UNCHANGED <<untouched, webhookLogs, now>>

\* `Math.min(log.attempt, 2)`
Min(a, b) == IF a < b THEN a ELSE b

\* WebhookController.retryWebhook by the user userId for the row k, served
\* by instance i: findFirst, webhookLog.update, then retryFailedWebhooks.
\* A row that is not found throws and changes nothing.
retryWebhook(i, k, userId) ==
  /\ sweep[i].pc = "idle"
  /\ k \in DOMAIN webhookLogs
  /\ webhookLogs[k].status = "failed"
  /\ applications[webhookLogs[k].ssoApplicationId].organizationId = userId
  /\ webhookLogs[k].resets < MaxResets
  /\ webhookLogs' = [webhookLogs EXCEPT ![k] =
                       [@ EXCEPT !.nextRetryAt = now,
                                 !.attempt = Min(@, 2),
                                 !.resets = @ + 1]]
  /\ sweep' = [sweep EXCEPT ![i] = [pc |-> "called", failedWebhooks |-> <<>>]]
  /\ UNCHANGED <<untouched, now>>

backoff_flat(attempt) == RetryDelay
\* `Math.pow(2, webhookLog.attempt) * 5 * 60 * 1000` ms, in seconds
backoff(attempt) == (2 ^ attempt) * RetryDelay

\* the data of webhookLog.update in the catch block, applied to the row
retryFailed_rescheduled(row, webhookLog) ==
  [row EXCEPT !.attempt = webhookLog.attempt + 1,
              !.nextRetryAt = now + backoff(webhookLog.attempt),
              !.posts = @ + 1]
retryFailed(row, webhookLog) ==
  [row EXCEPT !.attempt = webhookLog.attempt + 1,
              !.nextRetryAt = IF webhookLog.attempt >= 2 THEN NoDate
                              ELSE now + backoff(webhookLog.attempt),
              !.posts = @ + 1]

\* the data of webhookLog.update in the try block, applied to the row
retryDelivered(row, webhookLog) ==
  [row EXCEPT !.status = "delivered",
              !.attempt = webhookLog.attempt + 1,
              !.posts = @ + 1]

\* one turn of the loop of retryFailedWebhooks: the POST of the next row of
\* the list, then webhookLog.update by id with values computed from the copy
\* in the list
retry(i, delivered) ==
  /\ sweep[i].pc = "loop"
  /\ LET webhookLog == Head(sweep[i].failedWebhooks)
         rest == Tail(sweep[i].failedWebhooks)
         row == webhookLogs[webhookLog.id]
     IN /\ webhookLogs' =
             [webhookLogs EXCEPT ![webhookLog.id] =
                IF delivered THEN retryDelivered(row, webhookLog)
                ELSE retryFailed(row, webhookLog)]
        /\ sweep' = [sweep EXCEPT ![i] =
                       IF rest = <<>> THEN NoSweep
                       ELSE [pc |-> "loop", failedWebhooks |-> rest]]
  /\ UNCHANGED <<untouched, now>>

\* the instants at which a failed row becomes due
DueInstants ==
  {webhookLogs[k].nextRetryAt :
     k \in {x \in DOMAIN webhookLogs : /\ webhookLogs[x].status = "failed"
                                       /\ webhookLogs[x].nextRetryAt # NoDate}}

\* ------------------------------------------- /sso/applications, /oauth/consent
\* SsoService.toApplicationResponse: the row without clientSecret and
\* webhookSecret
toApplicationResponse(application) ==
  [f \in (DOMAIN application) \ {"clientSecret", "webhookSecret"} |-> application[f]]

\* prisma.ssoApplication.findFirst({ where: { id, organizationId: userId } })
findFirst(id, userId) ==
  {applications[a] : a \in {x \in AppIds : /\ applications[x].id = id
                                           /\ applications[x].organizationId = userId}}

\* ValidatorService.isValidScope
validScopes ==
  {ScopeRead, ScopeWrite, ScopeAdmin,
   <<"p", "r", "o", "f", "i", "l", "e">>, <<"e", "m", "a", "i", "l">>}
isValidScope(scope) ==
  /\ scope # NoScope
  /\ \E i \in DOMAIN scope : scope[i] # " "
  /\ Range(Split(scope)) \subseteq validScopes

\* SsoApplicationStatus, the enum of the status column
SsoApplicationStatus == {"active", "disabled"}

\* GET /sso/applications/:id
getApplicationById(id, userId) ==
  /\ response' =
       IF findFirst(id, userId) = {}
       THEN [op |-> "getApplicationById", status |-> 404, data |-> {}]
       ELSE [op |-> "getApplicationById", status |-> 200,
             data |-> {toApplicationResponse(a) : a \in findFirst(id, userId)}]
  /\ UNCHANGED <<applications, oauth>>

\* GET /sso/applications, with the optional status filter ("": none)
getUserApplications(userId, status) ==
  /\ response' =
       [op |-> "getUserApplications", status |-> 200,
        data |-> {toApplicationResponse(applications[a]) :
                    a \in {x \in AppIds :
                             /\ applications[x].organizationId = userId
                             /\ status # "" => applications[x].status = status}}]
  /\ UNCHANGED <<applications, oauth>>

\* the fields of UpdateSsoApplicationDto the model carries; NoScope, "absent"
\* and "" stand for a field the body does not have
UpdateDtos ==
  [scope : {NoScope, ScopeRead, ScopeWrite \o SP \o ScopeRead,
            ScopeRead \o SP \o SP \o ScopeWrite},
   refreshTokenEnabled : {"absent", "true", "false"},
   status : {"", "active", "inactive"}]

\* PUT /sso/applications/:id
updateApplication(id, userId, updateDto) ==
  LET answer(status, data) ==
        [op |-> "updateApplication", status |-> status, data |-> data]
  IN
  IF findFirst(id, userId) = {}
  THEN /\ response' = answer(404, {})
       /\ UNCHANGED <<applications, oauth>>
  ELSE IF updateDto.scope # NoScope /\ ~isValidScope(updateDto.scope)
  THEN /\ response' = answer(400, {})
       /\ UNCHANGED <<applications, oauth>>
  ELSE IF updateDto.status # "" /\ updateDto.status \notin SsoApplicationStatus
  THEN /\ response' = answer(500, {})
       /\ UNCHANGED <<applications, oauth>>
  ELSE LET application == CHOOSE a \in findFirst(id, userId) : TRUE
           a1 == IF updateDto.scope # NoScope
                 THEN [application EXCEPT !.scope = updateDto.scope]
                 ELSE application
           a2 == IF updateDto.refreshTokenEnabled # "absent"
                 THEN [a1 EXCEPT !.refreshTokenEnabled =
                                    (updateDto.refreshTokenEnabled = "true")]
                 ELSE a1
           updatedApplication ==
                 IF updateDto.status # ""
                 THEN [a2 EXCEPT !.status = updateDto.status]
                 ELSE a2
       IN /\ applications' = [applications EXCEPT ![id] = updatedApplication]
          /\ response' = answer(200, {toApplicationResponse(updatedApplication)})
          /\ UNCHANGED oauth

\* GET /oauth/consent: the object handed to the "consent" view
showConsentPage(clientId) ==
  /\ response' =
       IF findByClientId(clientId) = {}
       THEN [op |-> "showConsentPage", status |-> 400, data |-> {}]
       ELSE [op |-> "showConsentPage", status |-> 200,
             data |-> findByClientId(clientId)]
  /\ UNCHANGED <<applications, oauth>>

\* ------------------------------------------------------- specifications
\* The browser has followed the redirect of /authorize (or shown its error).
authorize_answered ==
  /\ authz.kind # "none"
  /\ authz' = NoAuthz
  /\ UNCHANGED <<aside, store, now, nextCode, nextToken, sent, req, history>>

\* Slots are interchangeable: a new request takes the first free one.
Free(s) ==
  /\ req[s].kind = "idle"
  /\ \A t \in Slots : t < s => req[t].kind # "idle"

\* The steps of the handlers once the request is in flight, for callers
\* that present the client ids of cids, the secrets of secrets and the
\* redirect URIs of uris.
Handlers(slots, cids, secrets, uris) ==
  \/ \E s \in slots, cid \in cids, secret \in secrets :
       exchange_findByClientId(s, cid, secret)
  \/ \E s \in slots, uri \in uris : exchange_findUnique(s, uri)
  \/ \E s \in slots : exchange_createRefreshToken(s)
  \/ \E s \in slots : exchange_deleteCode(s)
  \/ \E s \in slots : exchange_createLastLogin(s)
  \/ \E s \in slots, outcome \in Logged : exchange_sendTokenEvent(s, outcome)
  \/ \E s \in slots, cid \in cids, secret \in secrets :
       refresh_findByClientId(s, cid, secret)
  \/ \E s \in slots : refresh_findUnique(s)
  \/ \E s \in slots : refresh_update(s)
  \/ \E s \in slots, cid \in cids, jwt \in BOOLEAN, tok \in Tokens :
       revoke_findByClientId(s, cid, jwt, tok)
  \/ \E s \in slots : revoke_findUnique(s)
  \/ \E s \in slots : revoke_delete(s)
  \/ \E s \in slots : close(s)

\* Concurrent requests of client A within the lifetime of its credentials:
\* up to MaxReq requests in flight, each well-formed and carrying A's
\* credentials and redirect URI (or an unregistered client id) and any code
\* or token value.  The clock does not move.
Next ==
  \/ authorize(GrantQueryA, 1, "delivered")
  \/ \E s \in Slots, code \in Codes :
       Free(s) /\ token(s, FALSE, "authorization_code", code, 0)
  \/ \E s \in Slots, tok \in Tokens :
       Free(s) /\ refresh(s, "refresh_token", FALSE, tok)
  \/ \E s \in Slots, missing \in BOOLEAN : Free(s) /\ revoke(s, missing)
  \/ Handlers(Slots, {"client_A", "client_X"}, {"secret_A"}, {UriA})

Spec == Init /\ [][Next]_vars

\* One request at a time, of any client and with any body; time passes
\* between requests.
NextAny ==
  \/ \E q \in GrantQueries, outcome \in Logged : authorize(q, 1, outcome)
  \/ req[1].kind = "idle" /\ \E t \in Instants : Tick(t)
  \/ \E missing \in BOOLEAN, grant \in GrantTypes, code \in Codes, tok \in Tokens :
       token(1, missing, grant, code, tok)
  \/ \E grant \in GrantTypes, missing \in BOOLEAN, tok \in Tokens :
       refresh(1, grant, missing, tok)
  \/ \E missing \in BOOLEAN : revoke(1, missing)
  \/ Handlers({1}, ClientIds, Secrets, RedirectUris)
  \/ exchange_deleteExpired(1)
  \/ refresh_deleteExpired(1)

SpecAny == Init /\ [][NextAny]_vars

\* /authorize alone, one request after the other, with every query string
NextAuthorize ==
  \/ /\ authz.kind = "none"
     /\ \E q \in Queries, u \in Users, outcome \in Logged :
          authorize(q, u, outcome)
  \/ authorize_answered

SpecAuthorize == Init /\ [][NextAuthorize]_vars

\* the application endpoints and the consent page, by the users of both
\* organizations; updates go to one application of each organization and to
\* an id that does not exist
NextAdmin ==
  \/ \E id \in AppIds \cup {0}, u \in Users : getApplicationById(id, u)
  \/ \E u \in Users, status \in {"", "active", "disabled"} :
       getUserApplications(u, status)
  \/ \E id \in {0, 1, 3}, u \in Users, dto \in UpdateDtos :
       updateApplication(id, u, dto)
  \/ \E cid \in ClientIds : showConsentPage(cid)

SpecAdmin == Init /\ [][NextAdmin]_vars

\* the consent of a user to client B, which has a webhook URL
GrantQueryB ==
  [response_type |-> "code", client_id |-> "client_B", redirect_uri |-> UriB,
   scope |-> ScopeWrite, state |-> "abc"]

\* Client B's flow with every outcome of its webhooks, one request at a
\* time.
NextWebhook ==
  \/ \E outcome \in WebhookOutcomes : authorize(GrantQueryB, 1, outcome)
  \/ \E code \in Codes : token(1, FALSE, "authorization_code", code, 0)
  \/ exchange_findByClientId(1, "client_B", "secret_B")
  \/ exchange_findUnique(1, UriB)
  \/ exchange_createRefreshToken(1)
  \/ exchange_deleteCode(1)
  \/ exchange_createLastLogin(1)
  \/ \E outcome \in WebhookOutcomes : exchange_sendTokenEvent(1, outcome)
  \/ close(1)

SpecWebhook == Init /\ [][NextWebhook]_vars

\* The retry task on one instance and the manual retries, one run at a
\* time, over the deliveries of client B's user events; the clock moves to
\* the instants at which a failed delivery becomes due.
NextRetry ==
  \/ \E outcome \in WebhookOutcomes : sendUserEvent(2, outcome)
  \/ \E t \in DueInstants : Tick(t)
  \/ retryFailedWebhooks(1)
  \/ \E delivered \in BOOLEAN : retry(1, delivered)
  \/ \E k \in 1..MaxEvents, u \in Users : retryWebhook(1, k, u)

SpecRetry == Init /\ [][NextRetry]_vars

\* The retry task on both instances.
NextSweeps ==
  \/ \E outcome \in WebhookOutcomes : sendUserEvent(2, outcome)
  \/ \E t \in DueInstants : Tick(t)
  \/ \E i \in Instances : retryFailedWebhooks(i)
  \/ \E i \in Instances, delivered \in BOOLEAN : retry(i, delivered)

SpecSweeps == Init /\ [][NextSweeps]_vars

\* the bodies with which the owner of an application disables it and
\* enables it again
StatusDtos ==
  [scope : {NoScope}, refreshTokenEnabled : {"absent"},
   status : {"active", "disabled"}]

\* Client A's flow, one request at a time, while the owner of the
\* application disables and enables it between the requests.
NextStatus ==
  \/ authz.kind = "none" /\ authorize(GrantQueryA, 1, "delivered")
  \/ authorize_answered
  \/ \E code \in Codes : token(1, FALSE, "authorization_code", code, 0)
  \/ \E tok \in Tokens : refresh(1, "refresh_token", FALSE, tok)
  \/ \E missing \in BOOLEAN : revoke(1, missing)
  \/ Handlers({1}, {"client_A"}, {"secret_A"}, {UriA})
  \/ /\ req[1].kind = "idle"
     /\ authz.kind = "none"
     /\ \E dto \in StatusDtos : updateApplication(1, 1, dto)

SpecStatus == Init /\ [][NextStatus]_vars

\* The retry task on one instance, without manual retries.
NextSettle ==
  \/ \E outcome \in WebhookOutcomes : sendUserEvent(2, outcome)
  \/ \E t \in DueInstants : Tick(t)
  \/ retryFailedWebhooks(1)
  \/ \E delivered \in BOOLEAN : retry(1, delivered)

\* The cron task keeps running and the clock passes every scheduled
\* next_retry_at: TaskService.handleWebhookRetries is scheduled every five
\* minutes, and a run that has begun its loop ends it.
SpecSettle ==
  /\ Init
  /\ [][NextSettle]_vars
  /\ WF_vars(\E t \in DueInstants : Tick(t))
  /\ WF_vars(retryFailedWebhooks(1))
  /\ WF_vars(\E delivered \in BOOLEAN : retry(1, delivered))

\* ------------------------------------------- emission, the POST in flight
\* The handlers of /authorize and /oauth/token cut at the POST of
\* sendWebhook: `await firstValueFrom(this.httpService.post(...))` is sent
\* in one step and returns, fails or times out in a later one.
Posting(handler, s, application, event) ==
  [handler |-> handler, slot |-> s, application |-> application.id,
   event |-> event]

\* OAuthService.authorize for a client with a webhook URL, up to the POST
\* of sendAuthorizationEvent
authorize_post(q, userId) ==
  /\ authz.kind = "none"
  /\ authorizeError(q) = ""
  /\ LET application == CHOOSE a \in findByClientId(q.client_id) : TRUE
         row == [code |-> nextCode, userId |-> userId,
                 applicationId |-> application.id,
                 redirectUri |-> q.redirect_uri,
                 scope |-> Join(requestedScopesOf(q)),
                 expiresAt |-> now + CodeTTL]
     IN /\ application.webhookUrl
        /\ nextCode <= MaxCodes
        /\ authorizationCodes' = authorizationCodes \cup {row}
        /\ nextCode' = nextCode + 1
        /\ issued' = Append(issued, row)
        /\ exchangeOk' = Append(exchangeOk, 0)
        /\ posting' = posting \cup
             {Posting("authorize", 0, application, "authorization_granted")}
        /\ authz' = [kind |-> "awaiting", query |-> q, userId |-> userId,
                     location |-> "", code |-> row.code, error |-> "",
                     state |-> ""]
  /\ UNCHANGED <<response, sweep, users, oauthConnections, transactions,
                 nafath, saml, session, account, applications, refreshTokens,
                 lastLogins, webhookLogs, now, nextToken, sent, req,
                 refreshOk, revoked>>

\* OAuthService.authorize: the POST has returned, failed or timed out;
\* logWebhook, then the response of OAuthController.authorize
authorize_posted(outcome) ==
  /\ authz.kind = "awaiting"
  /\ \E d \in posting :
       /\ d.handler = "authorize"
       /\ posting' = posting \ {d}
       /\ sendEvent(applications[d.application], d.event, outcome)
       /\ authz' =
            IF sendThrows(applications[d.application], outcome)
            THEN authorizeFailure(authz.query, authz.userId,
                                  "webhookLog.create failed")
            ELSE [kind |-> "redirect", query |-> authz.query,
                  userId |-> authz.userId,
                  location |-> authz.query.redirect_uri,
                  code |-> authz.code, error |-> "",
                  state |-> authz.query.state]
  /\ UNCHANGED <<response, sweep, users, oauthConnections, transactions,
                 nafath, saml, session, account, applications, authorizationCodes,
                 refreshTokens, lastLogins, now, nextCode, nextToken, sent,
                 req, history>>

\* exchangeCodeForToken for a client with a webhook URL, up to the POST of
\* sendTokenEvent
exchange_post(s) ==
  /\ At(s, "token", "sendTokenEvent")
  /\ TheApplication(s).webhookUrl
  /\ posting' = posting \cup
       {Posting("token", s, TheApplication(s), "token_issued")}
  /\ req' = [req EXCEPT ![s].pc = "awaitTokenEvent"]
  /\ UNCHANGED <<response, sweep, users, oauthConnections, transactions,
                 nafath, saml, session, account, store, now, nextCode, nextToken,
                 sent, authz, history>>

\* exchangeCodeForToken: the POST has returned, failed or timed out;
\* logWebhook, then the response
exchange_posted(s, outcome) ==
  /\ At(s, "token", "awaitTokenEvent")
  /\ \E d \in posting :
       /\ d.handler = "token"
       /\ d.slot = s
       /\ posting' = posting \ {d}
       /\ sendEvent(applications[d.application], d.event, outcome)
       /\ IF sendThrows(applications[d.application], outcome)
          THEN /\ Answer(s, req[s], Resp(500, "Internal server error"))
               /\ UNCHANGED exchangeOk
          ELSE /\ Answer(s, req[s], Resp(200, "token response"))
               /\ exchangeOk' = [exchangeOk EXCEPT ![req[s].cred] = @ + 1]
  /\ UNCHANGED <<response, sweep, users, oauthConnections, transactions,
                 nafath, saml, session, account, applications, authorizationCodes,
                 refreshTokens, lastLogins, now, nextCode, nextToken, sent,
                 authz, issued, refreshOk, revoked>>

\* Client B's flow, one request at a time, with the POSTs of its webhooks
\* in flight.
NextEmit ==
  \/ authorize_post(GrantQueryB, 1)
  \/ \E outcome \in WebhookOutcomes : authorize_posted(outcome)
  \/ authz.kind # "awaiting" /\ authorize_answered
  \/ \E code \in Codes : token(1, FALSE, "authorization_code", code, 0)
  \/ exchange_findByClientId(1, "client_B", "secret_B")
  \/ exchange_findUnique(1, UriB)
  \/ exchange_createRefreshToken(1)
  \/ exchange_deleteCode(1)
  \/ exchange_createLastLogin(1)
  \/ exchange_post(1)
  \/ \E outcome \in WebhookOutcomes : exchange_posted(1, outcome)
  \/ close(1)

\* Every handler runs on: a POST returns, fails or times out after 10 s.
SpecEmit == Init /\ [][NextEmit]_vars /\ WF_vars(NextEmit)

\* ============================================================== Nafath
\* Strings the code inspects or builds are sequences of their pieces: a
\* transaction id is <<"nafath_", time, "_">> followed by its hex digits, a
\* national id is the sequence of its digits.
HexDigits ==
  <<"0", "1", "2", "3", "4", "5", "6", "7",
    "8", "9", "a", "b", "c", "d", "e", "f">>
Digits == {HexDigits[i] : i \in 1..10}
IndexOf(list, x) == CHOOSE i \in 1..Len(list) : list[i] = x

\* the values crypto.randomBytes(...).toString("hex") is drawn from here
RandomHex == {"0", "1", "2", "3", "f"}

\* NafathService.isValidNationalId: /^[12]\d{9}$/
isValidNationalId(nationalId) ==
  /\ Len(nationalId) = 10
  /\ nationalId[1] \in {"1", "2"}
  /\ \A i \in 1..Len(nationalId) : nationalId[i] \in Digits

\* NafathService.generateTransactionId
generateTransactionId(random) == <<"nafath_", ToString(now), "_">> \o random

\* NafathService.generateMockQR
generateMockQR(transactionId) == <<"data:image/svg+xml;base64,">> \o transactionId

\* String.prototype.includes and endsWith, on the pieces
includes(transactionId, word) ==
  \E i \in 1..Len(transactionId) : transactionId[i] = word
endsWith(transactionId, c) ==
  Len(transactionId) > 0 /\ transactionId[Len(transactionId)] = c

\* the profile NafathService.getMockTransactionStatus returns
MockProfile(transactionId) ==
  [nationalId |-> <<"1", "2", "3", "4", "5", "6", "7", "8", "9", "0">>,
   fullNameEn |-> "Mohammed Ahmed Al-Salem",
   email |-> <<"mohammed.salem@example.com">>,
   transactionId |-> transactionId]

\* NafathService.getMockTransactionStatus
getMockTransactionStatus(transactionId) ==
  IF includes(transactionId, "approved") \/ endsWith(transactionId, "1")
  THEN [status |-> "APPROVED", profile |-> {MockProfile(transactionId)}]
  ELSE IF includes(transactionId, "rejected") \/ endsWith(transactionId, "2")
  THEN [status |-> "REJECTED", profile |-> {}]
  ELSE IF includes(transactionId, "expired") \/ endsWith(transactionId, "3")
  THEN [status |-> "EXPIRED", profile |-> {}]
  ELSE [status |-> "PENDING", profile |-> {}]

\* NafathService.checkTransactionStatus, for a transaction id that is not
\* empty
checkTransactionStatus(transactionId) == getMockTransactionStatus(transactionId)

\* `Authentication ${status.toLowerCase()}`
Unauthorized(status) ==
  CASE status = "REJECTED" -> "Authentication rejected"
    [] status = "EXPIRED" -> "Authentication expired"
    [] status = "PENDING" -> "Authentication pending"
    [] OTHER -> "Authentication approved"

NafathAnswer(op, request, error, body) ==
  [op |-> op, request |-> request, error |-> error, body |-> body]

\* POST /auth/nafath/initiate
nafathInitiate(nationalId, channel, random) ==
  /\ Cardinality(transactions) < MaxTransactions
  /\ LET request == [nationalId |-> nationalId, channel |-> channel]
         transactionId == generateTransactionId(random)
     IN IF ~isValidNationalId(nationalId)
        THEN /\ nafath' = NafathAnswer("initiate", request,
                                       "Invalid national ID format", {})
             /\ UNCHANGED transactions
        ELSE /\ transactions' = transactions \cup {transactionId}
             /\ nafath' =
                  NafathAnswer("initiate", request, "",
                    {[transactionId |-> transactionId,
                      qrCode |-> IF channel = "QR"
                                 THEN generateMockQR(transactionId)
                                 ELSE <<>>,
                      expiresIn |-> 300]})
  /\ UNCHANGED <<provider, lastLogins, users, oauthConnections>>

\* GET /auth/nafath/status/:transactionId
nafathStatus(transactionId) ==
  /\ nafath' =
       IF transactionId = <<>>
       THEN NafathAnswer("status", transactionId,
                         "Transaction ID is required", {})
       ELSE NafathAnswer("status", transactionId, "",
                         {checkTransactionStatus(transactionId)})
  /\ UNCHANGED <<provider, lastLogins, users, oauthConnections, transactions>>

\* AuthService.findOrCreateNafathUser: the email it looks the user up by
emailOf(profile) ==
  IF profile.email # <<>> THEN profile.email
  ELSE profile.nationalId \o <<"@nafath.sa">>

\* prisma.user.findFirst({ where: { OR: [{ email }] } })
findUser(profile) == {u \in users : u.email = emailOf(profile)}

\* prisma.user.findFirst without orderBy: the row the database returns
\* first among the matching ones, as a set of at most one row
findFirstOf(rows) == IF rows = {} THEN {{}} ELSE {{u} : u \in rows}

\* AuthService.findOrCreateNafathUser, then UsersService.recordLogin: the
\* row of the user after them, found being what findFirst returned
NafathUser(profile, found) ==
  IF found # {}
  THEN LET user == CHOOSE u \in found : TRUE
       IN [user EXCEPT !.fullName = IF profile.fullNameEn # ""
                                    THEN profile.fullNameEn ELSE @,
                       !.emailVerified = TRUE,
                       !.lastLoginAt = now,
                       !.loginAttempts = 0,
                       !.lockedUntil = NoDate]
  ELSE [id |-> Cardinality(users) + 1,
        organizationId |-> 1,
        email |-> emailOf(profile),
        password |-> <<>>,
        status |-> 1,
        fullName |-> IF profile.fullNameEn # "" THEN profile.fullNameEn
                     ELSE "Nafath User",
        emailVerified |-> profile.email # <<>>,
        lastLoginAt |-> now,
        loginAttempts |-> 0,
        lockedUntil |-> NoDate]

\* AuthService.generateTokens: the tokens are their payloads
generateTokens(user) ==
  [accessToken |-> [sub |-> user.id, email |-> user.email],
   refreshToken |-> [sub |-> user.id, email |-> user.email, type |-> "refresh"]]

\* prisma.oauthConnection.create rejects a second row for the provider and
\* national id (oauth_provider_account_unique)
connectionExists(profile, found) ==
  /\ found = {}
  /\ \E c \in oauthConnections :
       c.provider = "nafath" /\ c.providerId = profile.nationalId

\* The part AuthService.handleNafathCallback and verifyNafathTransaction
\* share: findOrCreateNafathUser, generateTokens, recordLogin.  When
\* oauthConnection.create throws, the user row it follows stays.
nafathLogin(profile, found) ==
  /\ lastLogins < MaxLogins
  /\ users' = (users \ found) \cup {NafathUser(profile, found)}
  /\ IF connectionExists(profile, found)
     THEN UNCHANGED <<oauthConnections, lastLogins>>
     ELSE /\ oauthConnections' =
               IF found # {} THEN oauthConnections
               ELSE oauthConnections \cup
                      {[userId |-> NafathUser(profile, found).id,
                        provider |-> "nafath",
                        providerId |-> profile.nationalId]}
          /\ lastLogins' = lastLogins + 1

\* POST /auth/nafath/verify
nafathVerify(transactionId) ==
  /\ IF transactionId = <<>>
     THEN /\ nafath' = NafathAnswer("verify", transactionId,
                                    "Transaction ID is required", {})
          /\ UNCHANGED <<lastLogins, users, oauthConnections>>
     ELSE LET statusResult == checkTransactionStatus(transactionId)
          IN IF statusResult.status # "APPROVED" \/ statusResult.profile = {}
             THEN /\ nafath' = NafathAnswer("verify", transactionId,
                                            Unauthorized(statusResult.status), {})
                  /\ UNCHANGED <<lastLogins, users, oauthConnections>>
             ELSE LET profile == CHOOSE x \in statusResult.profile : TRUE
                  IN \E found \in findFirstOf(findUser(profile)) :
                       /\ nafathLogin(profile, found)
                       /\ nafath' =
                            IF connectionExists(profile, found)
                            THEN NafathAnswer("verify", transactionId,
                                              "Unique constraint failed", {})
                            ELSE NafathAnswer("verify", transactionId, "",
                                   {generateTokens(NafathUser(profile, found))})
  /\ UNCHANGED <<provider, transactions>>

\* ConfigService.get("NAFATH_CALLBACK_SECRET", "demo-callback-secret")
callbackSecret == "demo-callback-secret"
SecretList == <<"demo-callback-secret", "another-secret">>

\* the values of the fields of a callback body
StatusList == <<"", "APPROVED", "REJECTED">>
TransactionIdList == <<<<>>, <<"nafath_", "0", "_", "0">>>>
EmailList == <<<<>>, <<"a@x.test">>, <<"n@x.test">>>>
ANationalId == <<"1", "0", "0", "0", "0", "0", "0", "0", "0", "1">>

\* the bodies POSTed to /auth/nafath/callback
CallbackPayloads ==
  [transactionId : {TransactionIdList[i] : i \in 1..Len(TransactionIdList)},
   status : {StatusList[i] : i \in 1..Len(StatusList)},
   nationalId : {ANationalId},
   fullNameEn : {""},
   email : {EmailList[i] : i \in 1..Len(EmailList)}]

\* crypto.createHmac("sha256", secret).update(JSON.stringify(payload))
\* .digest("hex").  A one-byte keyed digest stands for HMAC-SHA256: it
\* differs for any two bodies of CallbackPayloads and for the two secrets.
createHmac(secret, payload) ==
  LET h == (IndexOf(SecretList, secret) - 1) * 18
           + (IndexOf(TransactionIdList, payload.transactionId) - 1) * 9
           + (IndexOf(StatusList, payload.status) - 1) * 3
           + (IndexOf(EmailList, payload.email) - 1)
           + 160
  IN <<HexDigits[(h \div 16) + 1], HexDigits[(h % 16) + 1]>>

\* Buffer.from(s, "hex"): the bytes of the pairs of hex digits of s, up to
\* the first pair that is not two hex digits
RECURSIVE fromHex(_)
fromHex(s) ==
  IF Len(s) < 2 \/ ~includes(HexDigits, s[1]) \/ ~includes(HexDigits, s[2])
  THEN <<>>
  ELSE <<16 * (IndexOf(HexDigits, s[1]) - 1) + (IndexOf(HexDigits, s[2]) - 1)>>
       \o fromHex(SubSeq(s, 3, Len(s)))

\* NafathService.verifyCallbackSignature: crypto.timingSafeEqual throws on
\* buffers of different lengths, and the catch block returns false
verifyCallbackSignature(payload, signature) ==
  LET expectedSignature == createHmac(callbackSecret, payload)
  IN /\ Len(fromHex(signature)) = Len(fromHex(expectedSignature))
     /\ fromHex(signature) = fromHex(expectedSignature)

\* req.headers["x-nafath-signature"] of a request without that header
Undefined == <<"undefined">>
\* a JavaScript string or undefined in a condition
Truthy(signature) == signature # Undefined /\ signature # <<>>

\* the signatures sent with a body: none, an empty one, the right one, the
\* one of another body, the one under another secret, the right one
\* followed by other characters, and a single digit
Signatures(payload) ==
  {Undefined, <<>>, createHmac(callbackSecret, payload),
   createHmac(callbackSecret,
              [payload EXCEPT !.status = IF @ = "APPROVED" THEN "REJECTED"
                                         ELSE "APPROVED"]),
   createHmac("another-secret", payload),
   createHmac(callbackSecret, payload) \o <<"z", "z">>,
   <<"0">>}

\* NafathService.handleCallback: the message of the exception it throws,
\* or "" when it returns the profile
handleCallback_anyStatus(payload, signature) ==
  IF Truthy(signature) /\ ~verifyCallbackSignature(payload, signature)
  THEN "Invalid callback signature"
  ELSE IF payload.transactionId = <<>> \/ payload.status = ""
  THEN "Invalid callback payload"
  ELSE ""
handleCallback(payload, signature) ==
  IF Truthy(signature) /\ ~verifyCallbackSignature(payload, signature)
  THEN "Invalid callback signature"
  ELSE IF payload.transactionId = <<>> \/ payload.status = ""
  THEN "Invalid callback payload"
  ELSE IF payload.status # "APPROVED"
  THEN Unauthorized(payload.status)
  ELSE ""

\* POST /auth/nafath/callback: AuthController.nafathCallback,
\* AuthService.handleNafathCallback
nafathCallback(payload, signature) ==
  /\ LET request == [payload |-> payload, signature |-> signature]
         error == handleCallback(payload, signature)
     IN IF error # ""
        THEN /\ nafath' = NafathAnswer("callback", request, error,
                            {[location |-> "/auth/error"]})
             /\ UNCHANGED <<lastLogins, users, oauthConnections>>
        ELSE \E found \in findFirstOf(findUser(payload)) :
               /\ nafathLogin(payload, found)
               /\ nafath' =
                    IF connectionExists(payload, found)
                    THEN NafathAnswer("callback", request,
                                      "Unique constraint failed",
                                      {[location |-> "/auth/error"]})
                    ELSE NafathAnswer("callback", request, "",
                           {[location |-> "/auth/callback",
                             token |-> generateTokens(
                                         NafathUser(payload, found)).accessToken]})
  /\ UNCHANGED <<provider, transactions>>

\* the national ids sent to /auth/nafath/initiate
NationalIds == {ANationalId, <<"1", "2", "3">>, [ANationalId EXCEPT ![1] = "3"]}
\* a transaction id no call of initiateAuth returned
Forged == <<"1">>

\* The eID endpoints the browser calls, one request at a time.
NextNafath ==
  \/ \E nationalId \in NationalIds, channel \in {"PUSH", "QR"},
        random \in [1..RandomLen -> RandomHex] :
       nafathInitiate(nationalId, channel, random)
  \/ \E transactionId \in transactions \cup {<<>>, Forged} :
       nafathStatus(transactionId)
  \/ \E transactionId \in transactions \cup {<<>>, Forged} :
       nafathVerify(transactionId)

SpecNafath == Init /\ [][NextNafath]_vars

\* The callbacks of the provider, or of whoever POSTs to the callback URL.
NextCallback ==
  \E payload \in CallbackPayloads :
    \E signature \in Signatures(payload) : nafathCallback(payload, signature)

SpecCallback == Init /\ [][NextCallback]_vars

\* transaction ids for which the provider answers PENDING, APPROVED,
\* REJECTED and EXPIRED, and a missing one
VerifyIds == {<<>>, <<"0">>, <<"1">>, <<"2">>, <<"3">>}

\* The two ways in which an eID login completes: the browser asks for the
\* verification of a transaction, or the provider calls back, unsigned or
\* signed.
NextFederated ==
  \/ \E transactionId \in VerifyIds : nafathVerify(transactionId)
  \/ \E payload \in CallbackPayloads :
       \E signature \in {Undefined, createHmac(callbackSecret, payload)} :
         nafathCallback(payload, signature)

SpecFederated == Init /\ [][NextFederated]_vars

\* ================================================================ SAML
\* the tenants table: the uuids of its rows
Tenants == {"tenant-1"}

\* TenantService.findByUuid: the rows, {} when NotFoundException is thrown
findByUuid(uuid) == {t \in Tenants : t = uuid}

\* UserService.findBySamlUserId
findBySamlUserId(samlUserId) == {u \in samlUsers : u.samlUserId = samlUserId}

\* UserService.findByEmail
findByEmail(email) == {u \in samlUsers : u.email = email}

\* SamlController.assertionConsumerService: the SAML user made of the body,
\* with its defaults
SamlUser(body) ==
  [nameID |-> IF body.nameID # "" THEN body.nameID ELSE "test-user-id",
   sessionIndex |-> "session-123",
   attributes |->
     [email |-> IF body.email # "" THEN body.email ELSE "test@example.com",
      firstName |-> IF body.firstName # "" THEN body.firstName ELSE "Test",
      lastName |-> "User"]]

\* SamlService.createOrUpdateUser: the user it updates, {} when it creates
\* one.  The user with the nameID, and the user with the email when there is
\* none with the nameID.
existing_none(samlUser) == {}
existing(samlUser) ==
  IF findBySamlUserId(samlUser.nameID) # {}
  THEN findBySamlUserId(samlUser.nameID)
  ELSE IF samlUser.attributes.email # ""
  THEN findByEmail(samlUser.attributes.email)
  ELSE {}

\* SamlService.createOrUpdateUser: userData
userData(samlUser) ==
  [email |-> IF samlUser.attributes.email # "" THEN samlUser.attributes.email
             ELSE samlUser.nameID,
   firstName |-> samlUser.attributes.firstName,
   lastName |-> samlUser.attributes.lastName,
   samlUserId |-> samlUser.nameID]

\* the row UserService.update or UserService.create writes
written(samlUser) ==
  LET data == userData(samlUser)
  IN [id |-> IF existing(samlUser) # {}
             THEN (CHOOSE u \in existing(samlUser) : TRUE).id
             ELSE Cardinality(samlUsers) + 1,
      email |-> data.email, firstName |-> data.firstName,
      lastName |-> data.lastName, samlUserId |-> data.samlUserId]

\* prisma.user.update and prisma.user.create reject a row whose email or
\* samlUserId another row holds
violatesUnique(row) ==
  \E u \in samlUsers :
    u.id # row.id /\ (u.email = row.email \/ u.samlUserId = row.samlUserId)

\* AuthService.generateToken: the session token is its claims
generateToken(user) == [sub |-> user.id, email |-> user.email]

\* POST /saml/:uuid/acs
assertionConsumerService(uuid, body) ==
  /\ Len(posted) < MaxPosts
  /\ LET samlUser == SamlUser(body)
         user == written(samlUser)
         failed == [status |-> 401, uuid |-> uuid, body |-> body,
                    user |-> {}, token |-> {}]
     IN IF findByUuid(uuid) = {}
        THEN /\ acs' = failed
             /\ UNCHANGED <<samlUsers, posted>>
        ELSE /\ posted' = Append(posted, body)
             /\ IF violatesUnique(user)
                THEN /\ acs' = failed
                     /\ UNCHANGED samlUsers
                ELSE /\ samlUsers' = (samlUsers \ existing(samlUser)) \cup {user}
                     /\ acs' = [status |-> 302, uuid |-> uuid, body |-> body,
                                user |-> {user}, token |-> {generateToken(user)}]
  /\ UNCHANGED <<store, now, nextCode, nextToken, sent, authz, req, history,
                 response, sweep, users, oauthConnections, transactions,
                 nafath, session, extra>>

\* the bodies posted to the assertion consumer service
AcsBodies ==
  [nameID : {"", "name-1", "name-2"},
   email : {"", "e1@x.test", "e2@x.test"},
   firstName : {"", "Ann"}]

\* The SAML assertion consumer service, one post at a time.
NextSaml ==
  \E uuid \in Tenants \cup {"tenant-0"}, body \in AcsBodies :
    assertionConsumerService(uuid, body)

SpecSaml == Init /\ [][NextSaml]_vars

\* =============================================================== login
\* UsersService.updateLoginAttempts: `attempts >= 5`
MaxLoginAttempts == 5
\* UsersService.updateLoginAttempts: `15 * 60 * 1000` ms, in seconds
LockTime == 15 * 60

\* the organizations table: the ids of its rows
Organizations == {1, 2}

\* String.prototype.toLowerCase, on the emails sent to /auth/login
toLowerCase(email) == IF email = <<"A@X.TEST">> THEN <<"a@x.test">> ELSE email

\* UsersService.findByEmailWithPassword: the matching rows; organizationId
\* 0 is an argument left out
findByEmailWithPassword(email, organizationId) ==
  IF organizationId # 0
  THEN {u \in users : /\ u.email = toLowerCase(email)
                      /\ u.organizationId = organizationId}
  ELSE {u \in users : u.email = toLowerCase(email)}

\* CryptoService.comparePassword
comparePassword(password, hash) == hash = hashPassword(password)

\* isAccountLocked without the comparison with the clock
isAccountLocked_never(user) == FALSE

\* UsersService.isAccountLocked
isAccountLocked(user) == user.lockedUntil # NoDate /\ user.lockedUntil > now

\* UsersService.updateLoginAttempts: the row it writes
updateLoginAttempts(user, attempts) ==
  [user EXCEPT !.loginAttempts = attempts,
               !.lockedUntil = IF attempts >= MaxLoginAttempts
                               THEN now + LockTime ELSE NoDate]

\* UsersService.recordLogin: the row it writes
recordLogin(user) ==
  [user EXCEPT !.lastLoginAt = now, !.loginAttempts = 0,
               !.lockedUntil = NoDate]

SessionAnswer(status, message, loginDto, organizationId, user, accessToken) ==
  [status |-> status, message |-> message, loginDto |-> loginDto,
   organizationId |-> organizationId, user |-> user,
   accessToken |-> accessToken]

\* POST /auth/login: AuthController.login, AuthService.login and
\* validateUser.  organizationId is the organization the request is made
\* for; no parameter of the request or of these methods carries it.
login(loginDto, organizationId) ==
  /\ \E found \in findFirstOf(findByEmailWithPassword(loginDto.email, 0)) :
       LET Refuse(message) ==
             session' = SessionAnswer(401, message, loginDto, organizationId,
                                      {}, {})
       IN IF found = {}
          THEN /\ Refuse("Invalid credentials")
               /\ UNCHANGED <<users, lastLogins>>
          ELSE LET user == CHOOSE u \in found : TRUE
               IN IF isAccountLocked(user)
                  THEN /\ Refuse("Account is temporarily locked due to multiple failed login attempts")
                       /\ UNCHANGED <<users, lastLogins>>
                  ELSE IF ~comparePassword(loginDto.password, user.password)
                  THEN /\ lastLogins < MaxLogins
                       /\ users' = (users \ {user}) \cup
                            {updateLoginAttempts(user, user.loginAttempts + 1)}
                       /\ lastLogins' = lastLogins + 1
                       /\ Refuse("Invalid credentials")
                  ELSE IF user.status # 1
                  THEN /\ Refuse("Account is not active")
                       /\ UNCHANGED <<users, lastLogins>>
                  ELSE /\ lastLogins < MaxLogins
                       /\ users' = (users \ {user}) \cup {recordLogin(user)}
                       /\ lastLogins' = lastLogins + 1
                       /\ session' =
                            SessionAnswer(200, "", loginDto, organizationId,
                                          {recordLogin(user)},
                                          {[sub |-> user.id, email |-> user.email]})
  /\ UNCHANGED <<applications, authorizationCodes, refreshTokens, webhookLogs,
                 now, nextCode, nextToken, sent, authz, req, history,
                 response, sweep, oauthConnections, transactions, nafath,
                 saml, extra>>

\* the bodies sent to /auth/login
LoginDtos ==
  [email : {<<"a@x.test">>, <<"A@X.TEST">>, <<"c@x.test">>, <<"z@x.test">>},
   password : {"pw-1", "pw-2", "pw-3", "pw-0"}]

\* Password logins, one request at a time.
NextLogin ==
  \E loginDto \in LoginDtos, organizationId \in Organizations :
    login(loginDto, organizationId)

SpecLogin == Init /\ [][NextLogin]_vars

\* ------------------------------------------------- login, store operations
\* AuthService.login cut at its store operations, for the calls that run at
\* the same time.  A slot holds the row findByEmailWithPassword returned,
\* the loginAttempts that recordFailedLogin read and the clock at which the
\* call was answered.
LockedMessage ==
  "Account is temporarily locked due to multiple failed login attempts"

\* prisma.user.findUnique({ where: { id } }): users are never deleted
findUnique(id) == CHOOSE u \in users : u.id = id

LoginAnswer(s, status, message, accessToken) ==
  [logins[s] EXCEPT !.pc = "done", !.at = now, !.status = status,
                    !.message = message, !.accessToken = accessToken]

LoginUser(s) == CHOOSE u \in logins[s].user : TRUE
LoginDto(s) == CHOOSE d \in logins[s].loginDto : TRUE

\* JWT_SECRET, and a key the service does not hold
JwtSecret == "JWT_SECRET"
\* JWT_EXPIRES_IN, "24h", and JWT_REFRESH_EXPIRES_IN, "7d", in seconds
AccessTTL == 24 * 3600
RefreshJwtTTL == 7 * 24 * 3600

\* the JwtPayload of login and refreshToken: sub, email (role is left out)
JwtPayload(user) == [sub |-> user.id, email |-> user.email]

\* jwtService.sign(payload, { expiresIn }): the claims and the key that
\* signed them.  `use` is history, not part of the token: what the token
\* was issued as.
jwtSign(payload, expiresIn, use) ==
  [sub |-> payload.sub, email |-> payload.email, iat |-> now,
   exp |-> now + expiresIn, secret |-> JwtSecret, use |-> use]

\* jwtService.verify(token): the signature and the expiry
jwtVerify(jwt) == jwt.secret = JwtSecret /\ now < jwt.exp

\* POST /auth/login arrives
login_send(s, loginDto) ==
  /\ logins[s].pc \in {"idle", "done"}
  /\ lastLogins < MaxAttempts
  /\ logins' = [logins EXCEPT ![s] =
                  [NoLogin EXCEPT !.pc = "findByEmailWithPassword",
                                  !.loginDto = {loginDto}]]
  /\ UNCHANGED <<store, now, nextCode, nextToken, sent, authz, req, history,
                 response, sweep, users, oauthConnections, transactions,
                 nafath, saml, session, posting, oneTime,
                 refreshed>>

\* validateUser: usersService.findByEmailWithPassword(email)
validateUser_find(s) ==
  /\ logins[s].pc = "findByEmailWithPassword"
  /\ \E found \in findFirstOf(findByEmailWithPassword(LoginDto(s).email, 0)) :
       logins' = [logins EXCEPT ![s] =
                    IF found = {}
                    THEN LoginAnswer(s, 401, "Invalid credentials", {})
                    ELSE [@ EXCEPT !.pc = "isAccountLocked",
                                   !.user = found]]
  /\ UNCHANGED <<store, now, nextCode, nextToken, sent, authz, req, history,
                 response, sweep, users, oauthConnections, transactions,
                 nafath, saml, session, posting, oneTime,
                 refreshed>>

\* validateUser: usersService.isAccountLocked(user.id), comparePassword,
\* and the status test of login
validateUser_isAccountLocked(s) ==
  /\ logins[s].pc = "isAccountLocked"
  /\ logins' = [logins EXCEPT ![s] =
       IF isAccountLocked(findUnique(LoginUser(s).id))
       THEN LoginAnswer(s, 401, LockedMessage, {})
       ELSE IF ~comparePassword(LoginDto(s).password, LoginUser(s).password)
       THEN [@ EXCEPT !.pc = "recordFailedLogin"]
       ELSE IF LoginUser(s).status # 1
       THEN LoginAnswer(s, 401, "Account is not active", {})
       ELSE [@ EXCEPT !.pc = "recordLogin"]]
  /\ UNCHANGED <<store, now, nextCode, nextToken, sent, authz, req, history,
                 response, sweep, users, oauthConnections, transactions,
                 nafath, saml, session, posting, oneTime,
                 refreshed>>

\* recordFailedLogin: prisma.user.findUnique, select loginAttempts
recordFailedLogin_find(s) ==
  /\ logins[s].pc = "recordFailedLogin"
  /\ logins' = [logins EXCEPT ![s] =
                  [@ EXCEPT !.pc = "updateLoginAttempts",
                            !.loginAttempts =
                               findUnique(LoginUser(s).id).loginAttempts]]
  /\ UNCHANGED <<store, now, nextCode, nextToken, sent, authz, req, history,
                 response, sweep, users, oauthConnections, transactions,
                 nafath, saml, session, posting, oneTime,
                 refreshed>>

\* recordFailedLogin: updateLoginAttempts(id, user.loginAttempts + 1) with
\* the value read before, lastLogin.create, and the answer of login
recordFailedLogin_update(s) ==
  /\ logins[s].pc = "updateLoginAttempts"
  /\ LET user == findUnique(LoginUser(s).id)
     IN users' = (users \ {user}) \cup
                   {updateLoginAttempts(user, logins[s].loginAttempts + 1)}
  /\ lastLogins' = lastLogins + 1
  /\ logins' = [logins EXCEPT ![s] =
                  LoginAnswer(s, 401, "Invalid credentials", {})]
  /\ UNCHANGED <<applications, authorizationCodes, refreshTokens, webhookLogs,
                 now, nextCode, nextToken, sent, authz, req, history,
                 response, sweep, oauthConnections, transactions, nafath,
                 saml, session, posting, oneTime,
                 refreshed>>

\* login: usersService.recordLogin in one transaction, and the tokens
login_recordLogin(s) ==
  /\ logins[s].pc = "recordLogin"
  /\ LET user == findUnique(LoginUser(s).id)
     IN users' = (users \ {user}) \cup {recordLogin(user)}
  /\ lastLogins' = lastLogins + 1
  /\ logins' = [logins EXCEPT ![s] =
       [LoginAnswer(s, 200, "",
                    {jwtSign(JwtPayload(LoginUser(s)), AccessTTL, "access")})
          EXCEPT !.refreshToken =
            IF LoginDto(s).rememberMe
            THEN {jwtSign(JwtPayload(LoginUser(s)), RefreshJwtTTL, "refresh")}
            ELSE {}]]
  /\ UNCHANGED <<applications, authorizationCodes, refreshTokens, webhookLogs,
                 now, nextCode, nextToken, sent, authz, req, history,
                 response, sweep, oauthConnections, transactions, nafath,
                 saml, session, posting, oneTime,
                 refreshed>>

\* the steps of the call in slot s
login_step(s) ==
  \/ validateUser_find(s)
  \/ validateUser_isAccountLocked(s)
  \/ recordFailedLogin_find(s)
  \/ recordFailedLogin_update(s)
  \/ login_recordLogin(s)

\* the instants at which an account stops being locked, and the second
\* before each
LockInstants ==
  UNION {{u.lockedUntil - 1, u.lockedUntil} : u \in {x \in users : x.lockedUntil # NoDate}}

\* the bodies sent to /auth/login while the lockout is watched
LockoutDtos ==
  [email : {<<"a@x.test">>}, password : {"pw-1", "pw-0"},
   rememberMe : {FALSE}]

\* Password logins for one email, one call at a time, and the clock.
NextLockout ==
  \/ /\ \A s \in Slots : logins[s].pc \in {"idle", "done"}
     /\ \E loginDto \in LockoutDtos : login_send(1, loginDto)
  \/ login_step(1)
  \/ /\ logins[1].pc \in {"idle", "done"}
     /\ \E t \in LockInstants : Tick(t)

SpecLockout == Init /\ [][NextLockout]_vars

\* the bodies sent to /auth/login with a wrong password for c@x.test
WrongDtos ==
  [email : {<<"c@x.test">>}, password : {"pw-0"}, rememberMe : {FALSE}]

\* Logins with a wrong password for one user, running at the same time:
\* the steps of login that a wrong password reaches.
NextLogins ==
  \E s \in Slots :
    \/ \E loginDto \in WrongDtos : login_send(s, loginDto)
    \/ validateUser_find(s)
    \/ validateUser_isAccountLocked(s)
    \/ recordFailedLogin_find(s)
    \/ recordFailedLogin_update(s)

SpecLogins == Init /\ [][NextLogins]_vars

\* ------------------------------------------------------- one-time tokens
\* requestPasswordReset: `60 * 60 * 1000` ms, in seconds
ResetTTL == 60 * 60

\* UsersService.findByEmail without organizationId: the matching rows
findUserByEmail(email) == {u \in users : u.email = toLowerCase(email)}

\* CryptoService.generateSecureToken: a value no row holds
generateSecureToken == Cardinality(passwordResetTokens) + 1

\* what the one-time token endpoints leave alone
beside == <<store, now, nextCode, nextToken, sent, authz, req, history,
            response, sweep, oauthConnections, transactions, nafath, saml,
            session, posting, logins, refreshed>>

\* POST /auth/forgot-password: AuthService.requestPasswordReset.  The row
\* is the one register stores for an activation, under another lifetime.
requestPasswordReset(email) ==
  /\ Cardinality(passwordResetTokens) < MaxResetTokens
  /\ \E found \in findFirstOf(findUserByEmail(email)) :
       /\ found # {}
       /\ LET user == CHOOSE u \in found : TRUE
          IN passwordResetTokens' = passwordResetTokens \cup
               {[token |-> generateSecureToken, userId |-> user.id,
                 email |-> user.email, expiredAt |-> now + ResetTTL,
                 usedAt |-> NoDate]}
  /\ UNCHANGED <<beside, users, tokenCalls>>

\* prisma.passwordResetToken.findUnique({ where: { token } })
findResetToken(value) == {r \in passwordResetTokens : r.token = value}

TokenAnswer(s, status, message) ==
  [tokenCalls[s] EXCEPT !.pc = "done", !.status = status,
                        !.message = message]

\* POST /auth/activate or /auth/reset-password arrives
token_send(s, op, value, newPassword) ==
  /\ tokenCalls[s].pc \in {"idle", "done"}
  /\ tokenCalls' = [tokenCalls EXCEPT ![s] =
                      [NoTokenCall EXCEPT !.pc = "findUnique", !.op = op,
                                          !.token = value,
                                          !.newPassword = newPassword]]
  /\ UNCHANGED <<beside, users, passwordResetTokens>>

\* activateAccount and resetPassword: findUnique and the three tests
token_findUnique(s) ==
  /\ tokenCalls[s].pc = "findUnique"
  /\ LET found == findResetToken(tokenCalls[s].token)
         row == CHOOSE r \in found : TRUE
         name == IF tokenCalls[s].op = "activate" THEN "Activation"
                 ELSE "Reset"
     IN tokenCalls' = [tokenCalls EXCEPT ![s] =
          IF found = {}
          THEN TokenAnswer(s, 400, <<"Invalid token", tokenCalls[s].op>>)
          ELSE IF row.usedAt # NoDate
          THEN TokenAnswer(s, 400, <<name, "token has already been used">>)
          ELSE IF row.expiredAt # NoDate /\ row.expiredAt < now
          THEN TokenAnswer(s, 400, <<name, "token has expired">>)
          ELSE [@ EXCEPT !.pc = "transaction", !.found = found]]
  /\ UNCHANGED <<beside, users, passwordResetTokens>>

\* prisma.passwordResetToken.update({ where: { token }, data: { usedAt } })
markUsed(value) ==
  {IF r.token = value THEN [r EXCEPT !.usedAt = now] ELSE r :
     r \in passwordResetTokens}

\* activateAccount: the transaction that verifies the user and marks the
\* token used; resetPassword: updatePassword and the same mark
token_transaction(s) ==
  /\ tokenCalls[s].pc = "transaction"
  /\ LET row == CHOOSE r \in tokenCalls[s].found : TRUE
         user == findUnique(row.userId)
     IN users' = (users \ {user}) \cup
          {IF tokenCalls[s].op = "activate"
           THEN [user EXCEPT !.emailVerified = TRUE]
           ELSE [user EXCEPT
                   !.password = hashPassword(tokenCalls[s].newPassword)]}
  /\ passwordResetTokens' = markUsed(tokenCalls[s].token)
  /\ tokenCalls' = [tokenCalls EXCEPT ![s] =
       TokenAnswer(s, 200,
                   IF tokenCalls[s].op = "activate"
                   THEN <<"Account activated successfully">>
                   ELSE <<"Password reset successfully">>)]
  /\ UNCHANGED beside

\* the tokens a caller can present: those generated so far, and 0, a value
\* that was never generated
OneTimeTokens == 0..Cardinality(passwordResetTokens)

\* One-time tokens: requests for a reset, and calls of activateAccount and
\* resetPassword running at the same time.
NextTokens ==
  \/ \E email \in {<<"a@x.test">>, <<"c@x.test">>} : requestPasswordReset(email)
  \/ \E s \in Slots :
       \/ \E op \in {"activate", "reset"}, value \in OneTimeTokens,
             newPassword \in {"pw-8", "pw-9"} :
            token_send(s, op, value, newPassword)
       \/ token_findUnique(s)
       \/ token_transaction(s)

SpecTokens == Init /\ [][NextTokens]_vars

\* ------------------------------------------------------- /auth/refresh
\* UsersService.findById
findById(id) == {u \in users : u.id = id}

\* POST /auth/refresh: AuthController.refresh and AuthService.refreshToken
refreshToken(presented) ==
  /\ refreshed' =
       IF /\ jwtVerify(presented)
          /\ \E user \in findById(presented.sub) : user.status = 1
       THEN LET user == CHOOSE u \in findById(presented.sub) : TRUE
            IN [status |-> 200, presented |-> {presented},
                accessToken |-> {jwtSign(JwtPayload(user), AccessTTL,
                                         "access")}]
       ELSE [status |-> 401, presented |-> {presented}, accessToken |-> {}]
  /\ UNCHANGED <<store, now, nextCode, nextToken, sent, authz, req, history,
                 response, sweep, users, oauthConnections, transactions,
                 nafath, saml, session, posting, logins, oneTime>>

\* the tokens a caller holds: those the answers of login and of
\* /auth/refresh carried, and one signed with another key
Presentable ==
  UNION {logins[s].accessToken \cup logins[s].refreshToken : s \in Slots}
  \cup refreshed.accessToken
  \cup {[sub |-> 1, email |-> <<"a@x.test">>, iat |-> 0,
         exp |-> RefreshJwtTTL, secret |-> "forged", use |-> "refresh"]}

\* the bodies sent to /auth/login by the sessions
SessionDtos ==
  [email : {<<"a@x.test">>}, password : {"pw-1"}, rememberMe : BOOLEAN]

\* the instants at which a held token is expired
ExpiryInstants == {jwt.exp : jwt \in Presentable}

\* Sessions: MaxLogins logins one at a time, requests to /auth/refresh, and
\* the clock.
NextSession ==
  \/ /\ lastLogins < MaxLogins
     /\ \E loginDto \in SessionDtos : login_send(1, loginDto)
  \/ login_step(1)
  \/ \E presented \in Presentable : refreshToken(presented)
  \/ /\ logins[1].pc \in {"idle", "done"}
     /\ \E t \in ExpiryInstants : Tick(t)

SpecSession == Init /\ [][NextSession]_vars

\* =================================================================== claims
Done(s) == req[s].pc = "done"
Succeeded(s) == Done(s) /\ req[s].result.status = 200
\* the request has minted no access token and generated no refresh token
NothingIssued(s) == req[s].access_token = {} /\ req[s].new_token = 0
OwnerOf(code) == applications[issued[code].applicationId]
TheRow(s) == CHOOSE row \in req[s].found : TRUE
TheApp(s) == CHOOSE a \in req[s].app : TRUE

\* C1: for an issued, unexpired code, of the exchange requests that carry
\* the owner's client_id and client_secret and the redirect URI of the code,
\* at most one returns a token response and every other one is answered
\* 401 "Invalid authorization code", however the requests are interleaved.
C1_ExactlyOneExchange ==
  /\ \A c \in DOMAIN exchangeOk : exchangeOk[c] <= 1
  /\ \A s \in Slots :
       ( /\ req[s].kind = "token"
         /\ Done(s)
         /\ req[s].cred \in DOMAIN issued
         /\ req[s].client_id = OwnerOf(req[s].cred).clientId
         /\ req[s].client_secret = OwnerOf(req[s].cred).clientSecret
         /\ req[s].redirect_uri \in {"-", issued[req[s].cred].redirectUri} )
       => \/ req[s].result.status = 200
          \/ req[s].result = Resp(401, "Invalid authorization code")

\* C2: an exchange request sent after an exchange of the same code has
\* returned tokens never mints an access token, never generates a refresh
\* token and is never answered with a token response, whatever its body.
C2_NoReplay ==
  \A s \in Slots :
    (req[s].kind = "token" /\ req[s].stale)
    => NothingIssued(s) /\ ~Succeeded(s)

C2_Witness ==
  \E s \in Slots :
    /\ req[s].kind = "token"
    /\ req[s].stale
    /\ req[s].result = Resp(401, "Invalid authorization code")

\* C3: rotation chain.  A refresh value that a refresh has replaced is no
\* longer stored, a refresh request sent after that never issues anything
\* with it, every value is refreshed successfully at most once, and a
\* refresh token record accepts one value at a time.
C3_RotationChain ==
  /\ \A v \in rotated : findRefreshToken(v) = {}
  /\ \A s \in Slots :
       (req[s].kind = "refresh" /\ req[s].stale)
       => NothingIssued(s) /\ ~Succeeded(s)
  /\ \A v \in DOMAIN refreshOk : refreshOk[v] <= 1
  /\ \A t1, t2 \in refreshTokens : t1.id = t2.id => t1 = t2
  /\ \A s \in Slots :
       (req[s].kind = "refresh" /\ Succeeded(s))
       => /\ req[s].new_token # req[s].cred
          /\ \A t \in refreshTokens : t.id = TheRow(s).id => t.token # req[s].cred

\* the value T' that replaced T has itself been refreshed successfully
C3_Witness ==
  \E s \in Slots :
    /\ req[s].kind = "refresh"
    /\ Succeeded(s)
    /\ TheRow(s).id # req[s].cred
    /\ TheRow(s).id \in rotated
    /\ findRefreshToken(req[s].new_token) # {}

\* C4: of two refresh requests that carry the same refresh token value, at
\* most one returns a token response.
C4_OneRefreshWins ==
  \A s1, s2 \in Slots :
    ( /\ s1 # s2
      /\ req[s1].kind = "refresh" /\ req[s2].kind = "refresh"
      /\ req[s1].cred = req[s2].cred )
    => ~(Succeeded(s1) /\ Succeeded(s2))

\* both requests read the row before either updated it
C4_Witness ==
  \E s1, s2 \in Slots :
    /\ s1 # s2
    /\ req[s1].kind = "refresh" /\ req[s2].kind = "refresh"
    /\ req[s1].cred = req[s2].cred
    /\ req[s1].found # {} /\ req[s2].found = req[s1].found
    /\ Succeeded(s1)
    /\ req[s2].result = P2025

\* C5: an exchange whose redirect_uri differs from the one stored with the
\* code at /authorize issues nothing and is answered 400 "Redirect URI
\* mismatch"; every token response was given to the stored redirect_uri.
C5_RedirectBinding ==
  \A s \in Slots :
    req[s].kind = "token" =>
      /\ ( /\ req[s].redirect_uri # "-"
           /\ req[s].redirect_uri # issued[req[s].cred].redirectUri )
         => /\ NothingIssued(s)
            /\ req[s].result = Resp(400, "Redirect URI mismatch")
      /\ Succeeded(s) => req[s].redirect_uri = issued[req[s].cred].redirectUri

\* a valid, unexpired code of the authenticated client, wrong redirect_uri
C5_Witness ==
  \E s \in Slots :
    /\ req[s].kind = "token"
    /\ req[s].found # {}
    /\ TheRow(s).applicationId = TheApp(s).id
    /\ TheRow(s).expiresAt >= now
    /\ req[s].redirect_uri = UriEvil
    /\ req[s].result = Resp(400, "Redirect URI mismatch")

\* C6: a code or refresh token of one client presented by another client
\* that authenticates with its own secret issues nothing and is answered
\* 401; every token response is given to the client that owns the row.
C6_ClientBinding ==
  \A s \in Slots :
    (req[s].kind \in {"token", "refresh"} /\ req[s].app # {} /\ req[s].found # {})
    => /\ TheRow(s).applicationId # TheApp(s).id
          => /\ NothingIssued(s)
             /\ Done(s) => req[s].result.status = 401
             /\ (Done(s) /\ TheRow(s).expiresAt >= now)
                => req[s].result \in
                     {Resp(401, "Authorization code does not belong to this application"),
                      Resp(401, "Refresh token does not belong to this application")}
       /\ Succeeded(s) => TheRow(s).applicationId = TheApp(s).id

\* client B, authenticated, presents an unexpired refresh token of client A
C6_Witness ==
  \E s \in Slots :
    /\ req[s].kind = "refresh"
    /\ req[s].client_id = "client_B" /\ req[s].client_secret = "secret_B"
    /\ req[s].found # {}
    /\ TheRow(s).applicationId = 1
    /\ TheRow(s).expiresAt >= now
    /\ req[s].result = Resp(401, "Refresh token does not belong to this application")

\* the checks of /authorize that precede the scope check pass for q
ResolvesClient(q) ==
  /\ q.response_type = "code"
  /\ findByClientId(q.client_id) # {}
  /\ \A a \in findByClientId(q.client_id) :
       a.status = "active" /\ a.redirectUri = q.redirect_uri

\* the scope tokens a query spells out, and the set /authorize checks and
\* stores for it: "read" stands in for a scope parameter that is absent
SpelledOf(q) == Range(Split(q.scope))
TokensOf(q) == IF q.scope = NoScope THEN {ScopeRead} ELSE SpelledOf(q)
AllowedOf(q) ==
  UNION {Range(Split(a.scope)) : a \in findByClientId(q.client_id)}
\* the step is an /authorize request of an active client with its registered
\* redirect_uri
AuthorizeStep ==
  authz' # authz /\ authz'.kind # "none" /\ ResolvesClient(authz'.query)
Refused == authz'.code = 0 /\ authz'.error # "" /\ authorizationCodes' = authorizationCodes
\* the step stores one code, whose scope is the tokens `tokens`
Granted(tokens) ==
  /\ authz'.code # 0
  /\ authz'.error = ""
  /\ \E c \in authorizationCodes' :
       /\ c.code = authz'.code
       /\ authorizationCodes' = authorizationCodes \cup {c}
       /\ c \notin authorizationCodes
       /\ Range(Split(c.scope)) = tokens
       /\ authz'.query.scope # NoScope => c.scope = authz'.query.scope

\* C7 as claimed: for an active client and its registered redirect_uri, an
\* /authorize request that spells out a scope token outside the client's
\* scope fails and stores no code; one whose spelled-out tokens are all
\* allowed succeeds and the scope stored with its code is exactly those
\* tokens.
C7_ScopeContainment ==
  [][AuthorizeStep =>
       IF SpelledOf(authz'.query) \subseteq AllowedOf(authz'.query)
       THEN Granted(SpelledOf(authz'.query))
       ELSE Refused]_vars

\* C7 amended: the same, where a request without a scope parameter counts
\* as a request for the one token "read": it fails for a client whose scope
\* lacks "read" and otherwise stores the scope "read".  A request with a
\* scope parameter stores that parameter unchanged.  No stored code carries
\* a token outside its client's scope.
C7_ScopeContainmentDefault ==
  [][/\ AuthorizeStep =>
          IF TokensOf(authz'.query) \subseteq AllowedOf(authz'.query)
          THEN Granted(TokensOf(authz'.query))
          ELSE Refused
     /\ \A c \in authorizationCodes' :
          Range(Split(c.scope)) \subseteq
            Range(Split(applications[c.applicationId].scope))]_vars

\* client A is granted "write read", both tokens of its scope "read write"
C7_Witness ==
  /\ authz.kind = "redirect"
  /\ authz.query.scope = ScopeWrite \o SP \o ScopeRead
  /\ \E c \in authorizationCodes :
       c.code = authz.code /\ c.scope = ScopeWrite \o SP \o ScopeRead

\* C8: an /authorize request that fails before the client's redirect_uri is
\* resolved and matched is answered with an HTTP error, not with a redirect.
C8_DirectErrors ==
  (authz.kind # "none" /\ ~ResolvesClient(authz.query)) => authz.kind = "http_error"

C11_RevokedStaysRevoked ==
  [][/\ \A v \in revoked' : findRefreshToken(v)' = {}
     /\ \A s \in Slots :
          req'[s].afterRevoke =>
            /\ req'[s].kind = "refresh" =>
                 /\ req'[s].access_token = {}
                 /\ req'[s].new_token = 0
                 /\ req'[s].result.status # 200
            /\ (req'[s].kind = "revoke" /\ req'[s] # req[s]) => store' = store]_vars

\* a value is revoked, then refused by /token/refresh
C11_Witness ==
  \E s \in Slots :
    /\ req[s].kind = "refresh"
    /\ req[s].afterRevoke
    /\ req[s].client_id = "client_A" /\ req[s].client_secret = "secret_A"
    /\ req[s].result = Resp(401, "Invalid refresh token")

\* the request of slot s has read a row whose expiry instant is past
PresentsExpired(s) ==
  /\ req[s].kind \in {"token", "refresh"}
  /\ req[s].found # {}
  /\ TheRow(s).expiresAt < now
\* the row the request of slot s presented, as stored now
StoredRow(s) ==
  IF req[s].kind = "token" THEN findCode(req[s].cred)
  ELSE findRefreshToken(req[s].cred)

\* C12: a request of an authenticated client that presents an expired code
\* or refresh token issues nothing, is answered 401 "... has expired" and
\* has deleted the row by then; a value that is not stored and not about to
\* be stored is never stored again, so later requests do not find it.
C12_ExpiredCleanup ==
  [][/\ \A s \in Slots :
          PresentsExpired(s)' =>
            /\ NothingIssued(s)'
            /\ Done(s)' =>
                 /\ req'[s].result \in {Resp(401, "Authorization code has expired"),
                                        Resp(401, "Refresh token has expired")}
                 /\ StoredRow(s)' = {}
     /\ \A v \in Codes : findCode(v) = {} => findCode(v)' = {}
     /\ \A v \in Tokens :
          (findRefreshToken(v) = {} /\ \A s \in Slots : req[s].new_token # v)
          => findRefreshToken(v)' = {}]_vars

\* client A refreshes with its own refresh token after its 30 days
C12_Witness ==
  \E s \in Slots :
    /\ PresentsExpired(s)
    /\ req[s].kind = "refresh"
    /\ TheRow(s).applicationId = TheApp(s).id
    /\ req[s].result = Resp(401, "Refresh token has expired")
    /\ findRefreshToken(req[s].cred) = {}

\* C13: a request of an authenticated client that presents an expired code
\* or refresh token is answered exactly as one that presents a value that
\* was never stored.
C13_NonEnumeration ==
  \A s \in Slots :
    (PresentsExpired(s) /\ Done(s)) => req[s].result = unknownValue(req[s].kind)

\* C14: no answer to an application get, list or update request, and no
\* object the consent endpoint returns, has a clientSecret field.
C14_NoSecretInResponses ==
  \A d \in response.data : "clientSecret" \notin DOMAIN d

\* the rows of webhook_logs
Logs == {webhookLogs[k] : k \in DOMAIN webhookLogs}
\* a failed row with attempt = 3 is terminal: next_retry_at is unset and
\* the retry task does not select it
Terminal(row) == row.nextRetryAt = NoDate /\ ~due(row)

C16_OverlappingSweeps ==
  /\ \A row \in Logs : row.posts <= 3
  /\ \A i, j \in Instances :
       i # j =>
         \A a \in DOMAIN sweep[i].failedWebhooks, b \in DOMAIN sweep[j].failedWebhooks :
           sweep[i].failedWebhooks[a].id # sweep[j].failedWebhooks[b].id

\* C17: whatever becomes of the webhook, an /authorize request that stored
\* a code redirects with that code, and an exchange that reached its webhook
\* returns the token response.
C17_WebhookIndependence ==
  [][/\ (authz' # authz /\ authorizationCodes' # authorizationCodes)
          => /\ authz'.error = ""
             /\ \E c \in authorizationCodes' \ authorizationCodes :
                  authz'.code = c.code
     /\ \A s \in Slots :
          (req[s].pc = "sendTokenEvent" /\ req'[s].pc = "done")
          => req'[s].result.status = 200]_vars

C19_CallbackSignature ==
  [][\A payload \in CallbackPayloads : \A signature \in Signatures(payload) :
       (/\ nafathCallback(payload, signature)
        /\ signature # createHmac(callbackSecret, payload))
       => /\ nafath'.error # ""
          /\ users' = users
          /\ oauthConnections' = oauthConnections
          /\ lastLogins' = lastLogins]_vars

\* ------------------------------------------------------------------- C20
\* C20: every transaction id initiateAuth has returned is PENDING when its
\* status is checked; no provider has acted on it.
C20_StartsPending ==
  \A transactionId \in transactions :
    checkTransactionStatus(transactionId).status = "PENDING"

\* ------------------------------------------------------------------- C21
\* C21: after every successful Nafath login the user the token was issued
\* to owns an oauth_connections row with provider "nafath" and providerId
\* the national id of the profile.
C21_FederatedConnection ==
  (nafath.op = "callback" /\ nafath.error = "")
  => \E answer \in nafath.body : \E connection \in oauthConnections :
       /\ connection.userId = answer.token.sub
       /\ connection.provider = "nafath"
       /\ connection.providerId = nafath.request.payload.nationalId

\* ------------------------------------------------------------------- C22
\* C22: a post to the assertion consumer service of a known tenant resolves
\* the user by the email of the assertion first: whenever a stored user has
\* that email, that user is the one returned and updated, also when another
\* stored user has the nameID.
C22_EmailFirst ==
  [][\A uuid \in Tenants : \A body \in AcsBodies :
       (/\ assertionConsumerService(uuid, body)
        /\ findByEmail(SamlUser(body).attributes.email) # {})
       => /\ acs'.user # {}
          /\ \A returned \in acs'.user :
               \A user \in findByEmail(SamlUser(body).attributes.email) :
                 returned.id = user.id]_vars

\* ------------------------------------------------------------------- C23
\* the posts so far all carried the same nameID and email, and the latest
\* one was for a known tenant
SamePosts ==
  /\ Len(posted) >= 1
  /\ acs.uuid \in Tenants
  /\ \A i \in 1..Len(posted) :
       /\ posted[i].nameID = posted[1].nameID
       /\ posted[i].email = posted[1].email

C24_OrganizationScoped ==
  [][\A loginDto \in LoginDtos : \A organizationId \in Organizations :
       (/\ login(loginDto, organizationId)
        /\ \E u1 \in users : \E u2 \in users :
             /\ u1.email = toLowerCase(loginDto.email)
             /\ u2.email = toLowerCase(loginDto.email)
             /\ u1.organizationId = organizationId
             /\ u2.organizationId # organizationId)
       => /\ \A u \in users : u.organizationId # organizationId => u \in users'
          /\ \A u \in session'.user : u.organizationId = organizationId]_vars

\* ------------------------------------------------------------------- C25
\* the checks of /authorize in the order claimed, for the query q
ChecksOf(q) ==
  <<q.response_type = "code",
    findByClientId(q.client_id) # {},
    \A a \in findByClientId(q.client_id) : a.status = "active",
    \A a \in findByClientId(q.client_id) : a.redirectUri = q.redirect_uri,
    TokensOf(q) \subseteq AllowedOf(q)>>
\* what the failure of each is reported as
FailureOf ==
  <<"Only code response type is supported", "SSO application not found",
    "Application is not active", "Invalid redirect URI",
    "Scope is not allowed">>
\* the first check that fails for q, 0 when none does
FirstFailing(q) ==
  IF \A i \in 1..5 : ChecksOf(q)[i] THEN 0
  ELSE CHOOSE i \in 1..5 :
         ~ChecksOf(q)[i] /\ \A j \in 1..(i - 1) : ChecksOf(q)[j]

\* C25: an /authorize request for which one of the checks fails stores no
\* authorization code and sends no webhook, and its response carries an
\* error and no code; when the request has its required parameters and the
\* error is sent by redirect, the error is that of the first failing check
\* in the order response_type, client exists, client active, redirect_uri,
\* scopes.
C25_FailingAuthorizeNoEffect ==
  [][(/\ authz' # authz
      /\ authz'.kind # "none"
      /\ FirstFailing(authz'.query) # 0)
     => /\ authorizationCodes' = authorizationCodes
        /\ webhookLogs' = webhookLogs
        /\ nextCode' = nextCode
        /\ authz'.code = 0
        /\ authz'.error # ""
        /\ (/\ authz'.kind = "redirect"
            /\ authz'.query.response_type # ""
            /\ authz'.query.client_id # "")
           => authz'.error = FailureOf[FirstFailing(authz'.query)]]_vars

\* a request of a disabled client has been refused
C25_Witness ==
  /\ authz.kind = "redirect"
  /\ authz.error = "Application is not active"
  /\ authorizationCodes = {}

\* the authorization code a returned access token derives from: the code of
\* the exchange, or the code the refreshed record was created for
CodeOf(s) ==
  IF req[s].kind = "token" THEN req[s].cred
  ELSE (CHOOSE t \in req[s].found : TRUE).code

\* the user, client and scope recorded on a code at /authorize
GrantOf(code) ==
  [sub |-> issued[code].userId,
   client_id |-> applications[issued[code].applicationId].clientId,
   scope |-> issued[code].scope]

\* C26: grant binding.  Every stored refresh token record and every access
\* token returned by an exchange or by a refresh carries the user id, the
\* client and the scope recorded at /authorize on the authorization code it
\* derives from.
C26_GrantBinding ==
  /\ \A t \in refreshTokens :
       [sub |-> t.userId, client_id |-> applications[t.applicationId].clientId,
        scope |-> t.scope] = GrantOf(t.code)
  /\ \A s \in Slots :
       Succeeded(s) /\ req[s].kind \in {"token", "refresh"}
       => /\ req[s].access_token # {}
          /\ \A a \in req[s].access_token :
               [sub |-> a.sub, client_id |-> a.client_id, scope |-> a.scope]
                 = GrantOf(CodeOf(s))

\* a refresh of a record that was itself refreshed before has returned an
\* access token
C26_Witness ==
  \E s \in Slots :
    /\ req[s].kind = "refresh"
    /\ Succeeded(s)
    /\ \E t \in req[s].found : t.token # t.id

\* C27: a refresh that returns a token response has replaced the token value
\* and the expiry of the one refresh token record that held the value
\* presented, and nothing else: the record keeps its user, client and scope,
\* the number of records is the same and every other record is unchanged.
C27_RefreshPreservesRecord ==
  [][\A s \in Slots :
       (/\ req[s].kind = "refresh"
        /\ req[s].pc # "done"
        /\ req'[s].pc = "done"
        /\ req'[s].result.status = 200)
       => \E t \in refreshTokens :
            /\ t.token = req[s].cred
            /\ \E u \in refreshTokens' :
                 /\ u = [t EXCEPT !.token = req[s].new_token,
                                  !.expiresAt = u.expiresAt]
                 /\ u.token # t.token
                 /\ refreshTokens' = (refreshTokens \ {t}) \cup {u}
            /\ Cardinality(refreshTokens') = Cardinality(refreshTokens)]_vars

\* a refresh has returned a token response while another refresh token
\* record was stored
C27_Witness ==
  \E s \in Slots :
    /\ req[s].kind = "refresh"
    /\ Succeeded(s)
    /\ Cardinality(refreshTokens) >= 2

\* C28: no orphan refresh tokens.  When a token-exchange request has been
\* answered with anything but a token response, no refresh token record
\* that the request created is stored.
C28_NoOrphanRefreshTokens ==
  \A s \in Slots :
    (req[s].kind = "token" /\ Done(s) /\ ~Succeeded(s))
    => \A t \in refreshTokens : t.id # req[s].new_token

\* C29: an application that is not active obtains no new access token.
\* Between the changes of its status, a request to /authorize for it stores
\* no code and returns none, and an exchange or a refresh with its
\* credentials returns no token response, whatever was issued to it while
\* it was active.
C29_InactiveGetsNoToken ==
  [][/\ (authz' # authz /\ authz'.kind # "none" /\ authz'.code # 0)
        => \A a \in findByClientId(authz'.query.client_id) :
             a.status = "active"
     /\ \A s \in Slots :
          (/\ req[s].kind \in {"token", "refresh"}
           /\ req[s].pc # "done"
           /\ req'[s].pc = "done"
           /\ req'[s].result.status = 200)
          => \A a \in findByClientId(req'[s].client_id) :
               a.status = "active"]_vars

\* C30: revocation requires the owning, authenticated client.  A /revoke
\* request that deletes a refresh token record carries the client_secret of
\* the application of its client_id, and the record was issued to that
\* application.
C30_RevokeRequiresOwner ==
  [][\A s \in Slots :
       (/\ req[s].kind = "revoke"
        /\ refreshTokens' # refreshTokens
        /\ req'[s] # req[s])
       => \E a \in findByClientId(req[s].client_id) :
            /\ req[s].client_secret = a.clientSecret
            /\ \A t \in refreshTokens \ refreshTokens' :
                 t.applicationId = a.id]_vars

\* the application for which the step emits an event: that of the code
\* /authorize stores, or that of the exchange that reaches sendTokenEvent
Emitting ==
  {applications[issued'[c].applicationId] :
     c \in (DOMAIN issued') \ (DOMAIN issued)}
  \cup {TheApplication(s) :
          s \in {x \in Slots : /\ req[x].kind = "token"
                               /\ req[x].pc = "sendTokenEvent"
                               /\ req'[x].pc = "done"}}

\* C31: emitting an event for a client without a webhook URL creates no
\* delivery record; emitting for a client with a webhook URL makes one POST
\* and creates exactly one record, delivered and with no next_retry_at when
\* the POST returned 2xx, failed and with next_retry_at = now + 5 minutes
\* otherwise.
C31_OneDeliveryRecord ==
  [][\A application \in Emitting :
       IF ~application.webhookUrl
       THEN webhookLogs' = webhookLogs
       ELSE /\ Len(webhookLogs') = Len(webhookLogs) + 1
            /\ SubSeq(webhookLogs', 1, Len(webhookLogs)) = webhookLogs
            /\ LET row == webhookLogs'[Len(webhookLogs')] IN
               /\ row.ssoApplicationId = application.id
               /\ row.posts = 1
               /\ IF row.ok
                  THEN row.status = "delivered" /\ row.nextRetryAt = NoDate
                  ELSE /\ row.status = "failed"
                       /\ row.nextRetryAt = now + RetryDelay]_vars

\* C32: a run of the retry task posts only records that it selected, with
\* attempt < 3 when selected; a record with status delivered is never posted
\* again and keeps status delivered.
C32_SweepSelection ==
  [][\A k \in DOMAIN webhookLogs :
       /\ webhookLogs'[k].posts > webhookLogs[k].posts
          => /\ \E i \in Instances :
                  /\ sweep[i].pc = "loop"
                  /\ Head(sweep[i].failedWebhooks).id = k
                  /\ Head(sweep[i].failedWebhooks).attempt < MaxAttempt
             /\ webhookLogs[k].status # "delivered"
       /\ webhookLogs[k].status = "delivered"
          => webhookLogs'[k].status = "delivered"]_vars

\* the record k is delivered, or failed with attempt = 3 and next_retry_at
\* unset
Settled(k) ==
  \/ webhookLogs[k].status = "delivered"
  \/ /\ webhookLogs[k].status = "failed"
     /\ webhookLogs[k].attempt = MaxAttempt
     /\ webhookLogs[k].nextRetryAt = NoDate

C34_ManualRetryLocal ==
  [][\A i \in Instances :
       (sweep[i].pc = "called" /\ sweep'[i] # sweep[i])
       => /\ Len(sweep'[i].failedWebhooks) = 1
          /\ \A j \in DOMAIN sweep'[i].failedWebhooks :
               webhookLogs[sweep'[i].failedWebhooks[j].id].resets > 0]_vars

\* a handler has sent its response while the POST of its webhook is in
\* flight
AnsweredInFlight ==
  \/ /\ authz.kind \in {"redirect", "http_error"}
     /\ \E d \in posting : d.handler = "authorize"
  \/ \E s \in Slots :
       /\ req[s].kind = "token"
       /\ Done(s)
       /\ \E d \in posting : d.handler = "token" /\ d.slot = s

StatusOf(answer) ==
  IF answer.op = "verify"
  THEN (IF answer.request = <<>> THEN ""
        ELSE checkTransactionStatus(answer.request).status)
  ELSE answer.request.payload.status

\* the answer carries tokens
IssuesTokens(answer) ==
  IF answer.op = "verify" THEN answer.body # {}
  ELSE \E b \in answer.body : "token" \in DOMAIN b

\* the messages of the UnauthorizedException a request for a transaction of
\* that status is refused with
UnauthorizedFor(status) ==
  {Unauthorized(status), "Invalid callback signature"}

\* a verify or callback request writes a user or a connection, records a
\* login or issues tokens only when the status of the transaction is
\* APPROVED
OnlyApprovedCompletes ==
  (\/ users' # users
   \/ oauthConnections' # oauthConnections
   \/ lastLogins' # lastLogins
   \/ IssuesTokens(nafath'))
  => StatusOf(nafath') = "APPROVED"

\* C36 as claimed: a login completes only when the status is APPROVED, and
\* when it is PENDING, REJECTED or EXPIRED the request fails with
\* Unauthorized and users, connections and the login history are unchanged.
C36_OnlyOnApproval ==
  [][(nafath' # nafath /\ nafath'.op \in {"verify", "callback"})
     => /\ OnlyApprovedCompletes
        /\ StatusOf(nafath') \in {"PENDING", "REJECTED", "EXPIRED"}
           => /\ nafath'.error \in UnauthorizedFor(StatusOf(nafath'))
              /\ ~IssuesTokens(nafath')
              /\ UNCHANGED <<users, oauthConnections, lastLogins>>]_vars

\* C36, amended: a login completes only when the status is APPROVED; when
\* it is PENDING, REJECTED or EXPIRED, users, connections and the login
\* history are unchanged and the request fails, with Unauthorized when it
\* names a transaction and with BadRequest "Invalid callback payload" when
\* it is a callback without a transactionId whose signature is absent or
\* right.
C36_OnlyOnApprovalNamed ==
  [][(nafath' # nafath /\ nafath'.op \in {"verify", "callback"})
     => /\ OnlyApprovedCompletes
        /\ StatusOf(nafath') \in {"PENDING", "REJECTED", "EXPIRED"}
           => /\ IF /\ nafath'.op = "callback"
                    /\ nafath'.request.payload.transactionId = <<>>
                    /\ nafath'.error # "Invalid callback signature"
                 THEN nafath'.error = "Invalid callback payload"
                 ELSE nafath'.error \in UnauthorizedFor(StatusOf(nafath'))
              /\ ~IssuesTokens(nafath')
              /\ UNCHANGED <<users, oauthConnections, lastLogins>>]_vars

\* after a login by an approved transaction, a rejected callback has been
\* refused
C36_Witness ==
  /\ nafath.op = "callback"
  /\ nafath.request.payload.status = "REJECTED"
  /\ nafath.error = "Authentication rejected"
  /\ lastLogins > 0
  /\ oauthConnections # {}

\* the row of the user a call of login is about, before and after a step
RowOf(s) == findUnique(LoginUser(s).id)
RowAfter(s) == CHOOSE u \in users' : u.id = LoginUser(s).id
\* the step answers the call in slot s, which had found a user
AnswersLogin(s) ==
  /\ logins[s].pc \notin {"idle", "done"}
  /\ logins[s].user # {}
  /\ logins'[s].pc = "done"

\* C37: account lockout, one login at a time.  The stored counter of a user
\* starts at 0, a wrong password evaluated for the user raises it by one
\* and a successful login puts it back to 0, so it counts the failed
\* attempts since the last success; the failure that brings it to 5 or
\* more locks the account until 15 minutes after that failure, fewer than 5
\* leave it unlocked, and a login answered before that instant is refused
\* with the lock message and changes nothing, whatever the password.
C37_Lockout ==
  [][\A s \in Slots :
       AnswersLogin(s) =>
         /\ (RowOf(s).lockedUntil # NoDate /\ now < RowOf(s).lockedUntil)
            => /\ logins'[s].status = 401
               /\ logins'[s].message = LockedMessage
               /\ users' = users
         /\ (logins[s].pc = "updateLoginAttempts")
            => /\ RowAfter(s).loginAttempts = RowOf(s).loginAttempts + 1
               /\ RowAfter(s).lockedUntil =
                    IF RowAfter(s).loginAttempts >= MaxLoginAttempts
                    THEN now + LockTime ELSE NoDate
         /\ (logins'[s].status = 200)
            => /\ RowAfter(s).loginAttempts = 0
               /\ RowAfter(s).lockedUntil = NoDate]_vars

\* the fifth failure has locked the account of user 1, and a login with
\* the password of user 1 was refused one second before the lock ends
C37_Witness ==
  \E s \in Slots :
    /\ logins[s].pc = "done"
    /\ logins[s].message = LockedMessage
    /\ logins[s].user # {}
    /\ LoginUser(s).id = 1
    /\ LoginDto(s).password = "pw-1"
    /\ findUnique(1).loginAttempts = MaxLoginAttempts
    /\ logins[s].at = findUnique(1).lockedUntil - 1

\* C38: lockout under concurrency.  When logins with a wrong password for
\* the same user run at the same time, every wrong password recorded for
\* the user raises the stored counter by one, so the account is locked once
\* 5 wrong passwords have been recorded.
C38_LockoutConcurrent ==
  [][/\ \A s \in Slots :
          (AnswersLogin(s) /\ logins[s].pc = "updateLoginAttempts")
          => RowAfter(s).loginAttempts = RowOf(s).loginAttempts + 1
     /\ lastLogins' >= MaxLoginAttempts
        => \A u \in users' : u.id = 3 => u.lockedUntil # NoDate]_vars

\* C39: one-time tokens are single-use.  At most one call of activateAccount
\* or resetPassword presenting a token succeeds: a call that succeeds marks
\* the token used, and no call succeeds with a token that is marked used,
\* however the calls that present it are interleaved.
C39_SingleUse ==
  [][\A s \in Slots :
       (tokenCalls[s].pc = "transaction" /\ tokenCalls'[s].pc = "done")
       => \A r \in findResetToken(tokenCalls[s].token) : r.usedAt = NoDate]_vars

\* C40: /auth/refresh mints a new access token only when the token
\* presented was issued as a refresh token; a valid access token is refused.
C40_RefreshTokensOnly ==
  refreshed.status = 200
  => \A presented \in refreshed.presented : presented.use = "refresh"

====
